---------------------------- MODULE Spec2Model ----------------------------
(***************************************************************************)
(* Clause normalisation, bijective equivalence of normalised clauses and   *)
(* the program-minimisation pipeline of the Datalog compiler               *)
(* (src/ast/analysis/ClauseNormalisation.cpp,                              *)
(*  src/ast/transform/MinimiseProgram.cpp).                                *)
(*                                                                         *)
(* AST values.  Structural (deep) equality of AST nodes is equality of the *)
(* values below.                                                           *)
(*   argument : [kind, name]            kind in "var" "num" "str" "nil"    *)
(*                                      "unnamed" "functor"                *)
(*              [kind |-> "aggr", name |-> operator, target |-> <<>> or    *)
(*               <<argument>>, body |-> sequence of literals]              *)
(*   literal  : [kind, name, conc, lat] kind in "atom" "neg" "bc" "bool"   *)
(*              ("bc": name is the operator symbol, conc = <<lhs, rhs>>;   *)
(*               "neg": the wrapped atom's name and arguments;             *)
(*               "bool": a boolean constraint, not handled by the          *)
(*               normaliser)                                               *)
(*   clause   : [head |-> atom literal, body |-> sequence of literals]     *)
(***************************************************************************)
EXTENDS Integers, Sequences, FiniteSets, TLC

VARIABLES
    relations,      \* AstProgram: declared relation names, in declaration order
    clauses,        \* AstProgram: the clause list, in program order
    ioRelations,    \* IOType analysis: the relations reported as I/O
    normalisations, \* ClauseNormalisationAnalysis cache: <<>> when invalidated
    countUnnamed,   \* normaliseArgument's function-local static counter
    pc,             \* position inside MinimiseProgramTransformer::transform
    changed,        \* transform's local `changed`
    lastChanged,    \* return value of the reduction that ran last
    before,         \* the program right before the reduction that ran last
    canonical,      \* reduceSingletonRelations: the canonicalName map it built
    runs,           \* number of completed transform runs
    firstResult,    \* the program as the first transform run left it
    given,          \* the program the current transform run was applied to
    left, right,    \* the two clauses handed to the equivalence test
    normLeft, normRight, \* their NormalisedClause objects
    equivalent,     \* result of areBijectivelyEquivalent(normLeft, normRight)
    sips,           \* ReorderLiteralsTransformer::transform: sipsChosen
    clauseIdx,      \* its loop over program.getClauses(): clauses visited so far
    replacedClauses, \* its local clausesToRemove
    atoms,          \* getOrderingAfterSIPS: the atom vector, consumed entries nullptr
    bindingStore,   \* getOrderingAfterSIPS: names of the bound variables
    newOrder,       \* getOrderingAfterSIPS: the indices chosen so far
    version,        \* ClauseTranslator::translateClause: the version translated
    planOrders,     \* the orders of the clause's execution plan, by version
    translating,    \* the clause argument of the current translateClause call
    translated,     \* the body atoms in the order they were translated
    directives,     \* AstProgram: the directive list
    declarations,   \* AstProgram: relations, types, lattices, functors declared
    diagnostics,    \* ErrorReport: the diagnostics added
    srcLoc,         \* source location of the next item the parser hands over
    lastCall,       \* the ParserDriver call made last, with its argument
    candidateMatrix, \* existsValidPermutation: its argument permutationMatrix
    searchState,    \* existsValidPermutation: the locals of the search loop
    submitted       \* the permutations handed to isValidPermutation so far

vars == <<relations, clauses, ioRelations, normalisations, countUnnamed, pc,
          changed, lastChanged, before, canonical, runs, firstResult, given,
          left, right, normLeft, normRight, equivalent,
          sips, clauseIdx, replacedClauses, atoms, bindingStore, newOrder,
          version, planOrders, translating, translated,
          directives, declarations, diagnostics, srcLoc, lastCall,
          candidateMatrix, searchState, submitted>>

-----------------------------------------------------------------------------
(* Generic sequence helpers *)

Range(s) == {s[i] : i \in 1..Len(s)}

RECURSIVE SeqOfLen(_, _)
SeqOfLen(S, n) ==
    IF n = 0 THEN {<<>>}
    ELSE {Append(s, x) : s \in SeqOfLen(S, n - 1), x \in S}

SeqUpTo(S, n) == UNION {SeqOfLen(S, k) : k \in 0..n}

Permutations1(n) == {p \in [1..n -> 1..n] : \A i, j \in 1..n : p[i] = p[j] => i = j}

-----------------------------------------------------------------------------
(* AST constructors *)

Var(n)     == [kind |-> "var", name |-> n]
Num(n)     == [kind |-> "num", name |-> n]
Str(n)     == [kind |-> "str", name |-> n]
Nil        == [kind |-> "nil", name |-> ""]
Unnamed    == [kind |-> "unnamed", name |-> "_"]
Functor(n) == [kind |-> "functor", name |-> n]

Atom(n, c, l)    == [kind |-> "atom", name |-> n, conc |-> c, lat |-> l]
Negation(a)      == [kind |-> "neg", name |-> a.name, conc |-> a.conc, lat |-> a.lat]
BinaryConstraint(op, lhs, rhs) ==
    [kind |-> "bc", name |-> op, conc |-> <<lhs, rhs>>, lat |-> <<>>]
BooleanConstraint(v) == [kind |-> "bool", name |-> v, conc |-> <<>>, lat |-> <<>>]

Clause(h, b) == [head |-> h, body |-> b]

-----------------------------------------------------------------------------
(* ClauseNormalisation.cpp: NormalisedClause                               *)
(*                                                                         *)
(* A NormalisedClause under construction is the record                     *)
(*   [fullyNormalised, aggrScopeCount, variables, constants,               *)
(*    clauseElements, countUnnamed]                                        *)
(* where countUnnamed threads the function-local static counter of         *)
(* normaliseArgument through the construction.  Identifiers are the        *)
(* strings the source builds.                                              *)

Element(n, c, l) == [name |-> n, concreteParams |-> c, latticeParams |-> l]

EmptyNormalisedClause(cnt) ==
    [fullyNormalised |-> TRUE, aggrScopeCount |-> 0, variables |-> {},
     constants |-> {}, clauseElements |-> <<>>, countUnnamed |-> cnt]

\* AstQualifiedName::prepend: the segment is put in front, segments print
\* joined by "."
Prepend(qualifier, name) == qualifier \o "." \o name

RECURSIVE normaliseArgument(_, _)
RECURSIVE normaliseArguments(_, _, _)
RECURSIVE addClauseBodyLiteral(_, _, _)
RECURSIVE addClauseBodyLiterals(_, _, _)

\* clauseElements.push_back(element)
pushElement(nc, element) == [nc EXCEPT !.clauseElements = Append(@, element)]

\* r = [nc, id] is the normalisation of the first of args
\* (the test r = r has r evaluated before the next argument is normalised:
\* the calls of the loop run one after the other)
normaliseRest(r, args, acc) ==
    IF r = r THEN normaliseArguments(r.nc, Tail(args), Append(acc, r.id))
    ELSE r

\* the loops `for arg : args  vars.push_back(normaliseArgument(arg))`:
\* returns [nc, ids] with ids = acc followed by the normalised arguments
normaliseArguments(nc, args, acc) ==
    IF args = <<>> THEN [nc |-> nc, ids |-> acc]
    ELSE normaliseRest(normaliseArgument(nc, Head(args)), args, acc)

\* constants.insert(name); return name
insertConstant(nc, name) ==
    [nc |-> [nc EXCEPT !.constants = @ \cup {name}], id |-> name]

\* variables.insert(name); return name
insertVariable(nc, name) ==
    [nc |-> [nc EXCEPT !.variables = @ \cup {name}], id |-> name]

\* variant (sensitivity of C12): the aggregate operator is left out of the
\* name of the type-signature element
aggregatorBodyAnyOperator(t, scopeID, aggr) ==
    [nc |-> addClauseBodyLiterals(
               pushElement(t.nc,
                  Element("@min:aggrtype",
                          IF aggr.target # <<>> THEN <<scopeID, t.id>>
                          ELSE <<scopeID>>,
                          <<>>)),
               scopeID, aggr.body),
     id |-> scopeID]

\* aggregator, lines 144-153: t = [nc, id] is the state after the target
\* expression (id the normalised target, "" when there is none)
aggregatorBody(t, scopeID, aggr) ==
    [nc |-> addClauseBodyLiterals(
               pushElement(t.nc,
                  Element("@min:aggrtype" \o ":" \o aggr.name,
                          IF aggr.target # <<>> THEN <<scopeID, t.id>>
                          ELSE <<scopeID>>,
                          <<>>)),
               scopeID, aggr.body),
     id |-> scopeID]

\* aggregator, lines 122-142: nc1 is the state with the new scope entered
aggregatorTarget(nc1, scopeID, aggr) ==
    aggregatorBody(IF aggr.target # <<>>
                   THEN normaliseArgument(nc1, aggr.target[1])
                   ELSE [nc |-> nc1, id |-> ""],
                   scopeID, aggr)

aggregatorScope(nc, cnt, aggr) ==
    aggregatorTarget(
        [nc EXCEPT !.aggrScopeCount = cnt,
                   !.variables = @ \cup {"@min:scope:" \o ToString(cnt)}],
        "@min:scope:" \o ToString(cnt), aggr)

\* returns [nc, id]: the updated clause under construction and the
\* identifier string of the argument
normaliseArgument(nc, arg) ==
    CASE arg.kind = "str" ->
            insertConstant(nc, "@min:cst:str" \o "\"" \o arg.name \o "\"")
      [] arg.kind = "num" ->
            insertConstant(nc, "@min:cst:num:" \o arg.name)
      [] arg.kind = "nil" ->
            insertConstant(nc, "@min:cst:nil")
      [] arg.kind = "var" ->
            insertVariable(nc, arg.name)
      [] arg.kind = "unnamed" ->
            insertVariable([nc EXCEPT !.countUnnamed = @ + 1],
                           "@min:unnamed:" \o ToString(nc.countUnnamed))
      [] arg.kind = "aggr" ->
            aggregatorScope(nc, nc.aggrScopeCount + 1, arg)
      [] OTHER ->
            [nc |-> [nc EXCEPT !.fullyNormalised = FALSE],
             id |-> "@min:unhandled:arg"]

\* the element of an atom: c = [nc, ids] the normalised concrete
\* arguments, t = [nc, ids] the normalised lattice arguments
atomElement(name, c, t) == pushElement(t.nc, Element(name, c.ids, t.ids))

\* variant (sensitivity of C10): the lattice arguments are left out of the
\* normalisation
atomLatticeDropped(name, prefix, atom, c) ==
    pushElement(c.nc, Element(name, c.ids, prefix))

\* prefix: <<scopeID>> for a body atom, <<>> for the head
atomLattice(name, prefix, atom, c) ==
    atomElement(name, c, normaliseArguments(c.nc, atom.lat, prefix))

atomConcrete(nc, name, prefix, atom) ==
    atomLattice(name, prefix, atom, normaliseArguments(nc, atom.conc, prefix))

addClauseAtom(nc, qualifier, scopeID, atom) ==
    atomConcrete(nc, Prepend(qualifier, atom.name), <<scopeID>>, atom)

\* toBinaryConstraintSymbol / operator<< of the literal: the printed form
toString(lit) == lit.name

\* v = [nc, ids]: scope, lhs and rhs normalised
constraintElement(name, v) == pushElement(v.nc, Element(name, v.ids, <<>>))

addClauseBodyLiteral(nc, scopeID, lit) ==
    CASE lit.kind = "atom" -> addClauseAtom(nc, "@min:atom", scopeID, lit)
      [] lit.kind = "neg"  -> addClauseAtom(nc, "@min:neg", scopeID, lit)
      [] lit.kind = "bc"   ->
            constraintElement(Prepend("@min:operator", lit.name),
                              normaliseArguments(nc, lit.conc, <<scopeID>>))
      [] OTHER ->
            pushElement([nc EXCEPT !.fullyNormalised = FALSE],
                        Element(Prepend("@min:unhandled:lit:" \o scopeID,
                                        toString(lit)), <<>>, <<>>))

\* (nc # nc is false; it has nc evaluated before the next literal is added)
addClauseBodyLiterals(nc, scopeID, lits) ==
    IF lits = <<>> \/ nc # nc THEN nc
    ELSE addClauseBodyLiterals(addClauseBodyLiteral(nc, scopeID, Head(lits)),
                               scopeID, Tail(lits))

\* NormalisedClause::NormalisedClause(const AstClause*), entered with the
\* static counter at cnt
NormalisedClause(clause, cnt) ==
    addClauseBodyLiterals(
        atomConcrete(EmptyNormalisedClause(cnt), "@min:head", <<>>, clause.head),
        "@min:scope:0", clause.body)

-----------------------------------------------------------------------------
(* MinimiseProgram.cpp: the bijective-equivalence test                     *)
(* Positions and permutation entries are 0-based as in the source;         *)
(* sequences are 1-based, hence the "+ 1" at every subscript.              *)

\* std::map<std::string,std::string>::operator[] on a missing key yields ""
MapGet(m, k) == IF k \in DOMAIN m THEN m[k] ELSE ""
MapPut(m, k, v) == [x \in (DOMAIN m) \cup {k} |-> IF x = k THEN v ELSE m[x]]

\* variant (sensitivity of C9): a constant may be matched with any parameter
RECURSIVE mapParamsAnyConstant(_, _, _, _)
mapParamsAnyConstant(variableMap, leftArgs, rightArgs, j) ==
    IF j > Len(leftArgs) THEN [ok |-> TRUE, map |-> variableMap]
    ELSE LET currentMap == MapGet(variableMap, leftArgs[j])
         IN IF currentMap = ""
            THEN mapParamsAnyConstant(MapPut(variableMap, leftArgs[j], rightArgs[j]),
                                      leftArgs, rightArgs, j + 1)
            ELSE IF currentMap # rightArgs[j] /\ currentMap # leftArgs[j]
                 THEN [ok |-> FALSE, map |-> variableMap]
                 ELSE mapParamsAnyConstant(variableMap, leftArgs, rightArgs, j + 1)

\* the two inner loops over j: the left parameters of one list against the
\* right parameters at the same index; returns [ok, map]
\* (vm is the map the call works on, the value of variableMap)
RECURSIVE mapParams(_, _, _, _)
mapParams(variableMap, leftArgs, rightArgs, j) ==
    CHOOSE result \in
        {IF j > Len(leftArgs) THEN [ok |-> TRUE, map |-> vm]
         ELSE LET leftArg    == leftArgs[j]
                  rightArg   == rightArgs[j]
                  currentMap == MapGet(vm, leftArg)
              IN IF currentMap = ""
                 THEN mapParams(MapPut(vm, leftArg, rightArg),
                                leftArgs, rightArgs, j + 1)
                 ELSE IF currentMap # rightArg
                      THEN [ok |-> FALSE, map |-> vm]
                      ELSE mapParams(vm, leftArgs, rightArgs, j + 1) :
         vm \in {variableMap}} : TRUE

\* the second inner loop (lattice parameters) of iteration i; c = [ok, map]
\* is the result of the first
mapLattice(c, leftElements, rightElements, permutation, i) ==
    IF ~c.ok THEN c
    ELSE mapParams(c.map, leftElements[i + 1].latticeParams,
                   rightElements[permutation[i + 1] + 1].latticeParams, 1)

\* iteration i of the outer loop; returns [ok, map]
mapElement(variableMap, leftElements, rightElements, permutation, i) ==
    mapLattice(mapParams(variableMap, leftElements[i + 1].concreteParams,
                  rightElements[permutation[i + 1] + 1].concreteParams, 1),
               leftElements, rightElements, permutation, i)

\* iterations lo, ..., hi - 1 of the outer loop in this order, from
\* t = [ok, map]; the loop is left at the first iteration that fails
RECURSIVE mapElements(_, _, _, _, _, _)
mapElements(t, leftElements, rightElements, permutation, lo, hi) ==
    IF ~t.ok \/ lo >= hi THEN t
    ELSE IF hi = lo + 1
    THEN mapElement(t.map, leftElements, rightElements, permutation, lo)
    ELSE mapElements(mapElements(t, leftElements, rightElements, permutation,
                                 lo, (lo + hi) \div 2),
                     leftElements, rightElements, permutation,
                     (lo + hi) \div 2, hi)

\* the variable map as initialised: constants fixed, variables unassigned
initialVariableMap(nl) ==
    [x \in nl.constants \cup nl.variables |->
        IF x \in nl.variables THEN "" ELSE x]

\* [ok, map] of the scan isValidPermutation performs
scanPermutation(nl, nr, permutation) ==
    mapElements([ok |-> TRUE, map |-> initialVariableMap(nl)],
                nl.clauseElements, nr.clauseElements, permutation,
                0, Len(nl.clauseElements))

isValidPermutation(nl, nr, permutation) == scanPermutation(nl, nr, permutation).ok

\* keeps the first admissible column of each row only
validMovesFirstOnly(permutationMatrix) ==
    LET n == Len(permutationMatrix)
        first(row) == IF row = <<>> THEN <<>> ELSE <<row[1]>>
    IN [i \in 1..n |->
          first(SelectSeq([j \in 1..n |-> j - 1],
                          LAMBDA j : permutationMatrix[i][j + 1] = 1))]

\* rows of the candidate matrix as lists of admissible columns
validMovesOf(permutationMatrix) ==
    LET n == Len(permutationMatrix)
    IN [i \in 1..n |->
          SelectSeq([j \in 1..n |-> j - 1],
                    LAMBDA j : permutationMatrix[i][j + 1] = 1)]

\* state of the search loop of existsValidPermutation
searchStart(validMoves) ==
    [currentIdx |-> 0,
     seen |-> [j \in 0..(Len(validMoves) - 1) |-> 0],
     currentPermutation |-> <<>>,
     todoStack |-> <<validMoves[1]>>,        \* top of the stack first
     result |-> "searching"]

\* leaves the permutation as it is
searchUndoNothing(st, stack) == st

\* undo the last number added to the permutation
searchUndo(st, stack) ==
    LET idx == st.currentIdx - 1
    IN [st EXCEPT !.currentIdx = idx,
                  !.seen[st.currentPermutation[idx + 1]] = 0,
                  !.currentPermutation = SubSeq(@, 1, idx),
                  !.todoStack = stack]

\* one iteration of the while loop
searchStep(st, nl, nr, validMoves) ==
    LET clauseSize == Len(validMoves)
    IN IF st.todoStack = <<>> THEN [st EXCEPT !.result = "false"]
       ELSE IF st.currentIdx = clauseSize
       THEN IF isValidPermutation(nl, nr, st.currentPermutation)
            THEN [st EXCEPT !.result = "true"]
            ELSE IF st.currentIdx = 0 THEN [st EXCEPT !.result = "false"]
            ELSE searchUndo(st, st.todoStack)
       ELSE LET possibilities == Head(st.todoStack)
                popped        == Tail(st.todoStack)
            IN IF possibilities = <<>>
               THEN IF st.currentIdx = 0 THEN [st EXCEPT !.result = "false"]
                    ELSE searchUndo(st, popped)
               ELSE LET nextNum == Head(possibilities)
                        pushed  == <<Tail(possibilities)>> \o popped
                    IN IF st.seen[nextNum] # 0
                       THEN [st EXCEPT !.todoStack = pushed]
                       ELSE [st EXCEPT
                               !.seen[nextNum] = 1,
                               !.currentPermutation = Append(@, nextNum),
                               !.currentIdx = @ + 1,
                               !.todoStack =
                                  IF st.currentIdx + 1 < clauseSize
                                  THEN <<validMoves[st.currentIdx + 2]>> \o pushed
                                  ELSE pushed]

\* up to 2^k iterations of the while loop, fewer when the loop ends
RECURSIVE searchIterate(_, _, _, _, _)
searchIterate(st, nl, nr, validMoves, k) ==
    IF st.result # "searching" THEN st
    ELSE IF k = 0 THEN searchStep(st, nl, nr, validMoves)
    ELSE searchIterate(searchIterate(st, nl, nr, validMoves, k - 1),
                       nl, nr, validMoves, k - 1)

\* the while loop, run until it returns
RECURSIVE searchRun(_, _, _, _, _)
searchRun(st, nl, nr, validMoves, k) ==
    IF st.result # "searching" THEN st
    ELSE searchRun(searchIterate(st, nl, nr, validMoves, k),
                   nl, nr, validMoves, k + 1)

searchFrom(nl, nr, validMoves) ==
    searchRun(searchStart(validMoves), nl, nr, validMoves, 0)

\* final state of the search: result and, when "true", the accepted permutation
searchPermutation(nl, nr, permutationMatrix) ==
    searchFrom(nl, nr, validMovesOf(permutationMatrix))

existsValidPermutation(nl, nr, permutationMatrix) ==
    searchPermutation(nl, nr, permutationMatrix).result = "true"

\* variant (sensitivity of C1): only the identity is a candidate
permutationMatrixIdentity(nl, nr) ==
    [i \in 1..Len(nl.clauseElements) |-> [j \in 1..Len(nl.clauseElements) |->
        IF i = j /\ nl.clauseElements[i].name = nr.clauseElements[j].name
        THEN 1 ELSE 0]]

permutationMatrixOf(nl, nr) ==
    LET size == Len(nl.clauseElements)
    IN [i \in 1..size |-> [j \in 1..size |->
          IF nl.clauseElements[i].name = nr.clauseElements[j].name THEN 1 ELSE 0]]

\* variant (sensitivity of C8): fullyNormalised is not looked at
preconditionsHoldUnchecked(nl, nr) ==
    /\ Len(nl.clauseElements) = Len(nr.clauseElements)
    /\ Len(nl.clauseElements[1].concreteParams) = Len(nr.clauseElements[1].concreteParams)
    /\ Len(nl.clauseElements[1].latticeParams) = Len(nr.clauseElements[1].latticeParams)
    /\ Cardinality(nl.variables) = Cardinality(nr.variables)
    /\ nl.constants = nr.constants

\* variant (sensitivity of C11): the numbers of variables are not compared
preconditionsHoldAnyVariables(nl, nr) ==
    /\ nl.fullyNormalised /\ nr.fullyNormalised
    /\ Len(nl.clauseElements) = Len(nr.clauseElements)
    /\ Len(nl.clauseElements[1].concreteParams) = Len(nr.clauseElements[1].concreteParams)
    /\ Len(nl.clauseElements[1].latticeParams) = Len(nr.clauseElements[1].latticeParams)
    /\ nl.constants = nr.constants

\* the checks that precede the search
preconditionsHold(nl, nr) ==
    /\ nl.fullyNormalised /\ nr.fullyNormalised
    /\ Len(nl.clauseElements) = Len(nr.clauseElements)
    /\ Len(nl.clauseElements[1].concreteParams) = Len(nr.clauseElements[1].concreteParams)
    /\ Len(nl.clauseElements[1].latticeParams) = Len(nr.clauseElements[1].latticeParams)
    /\ Cardinality(nl.variables) = Cardinality(nr.variables)
    /\ nl.constants = nr.constants

areBijectivelyEquivalent(nl, nr) ==
    /\ preconditionsHold(nl, nr)
    /\ existsValidPermutation(nl, nr, permutationMatrixOf(nl, nr))

\* ClauseNormalisationAnalysis::run: every clause of the program, in
\* program order; returns [norms (one per clause position), cnt]
RECURSIVE runNormalisation(_, _, _)
normalisedNext(cls, n, acc) ==
    runNormalisation(Tail(cls), n.countUnnamed, Append(acc, n))

runNormalisation(cls, cnt, acc) ==
    IF cls = <<>> THEN [norms |-> acc, cnt |-> cnt]
    ELSE normalisedNext(cls, NormalisedClause(Head(cls), cnt), acc)

-----------------------------------------------------------------------------
(* AstProgram and the AST utilities the reductions call.  A clause object  *)
(* is identified by its position in the clause list.                       *)

\* AstProgram::removeClause: erases the first clause structurally equal to c
RECURSIVE removeClause(_, _)
removeClause(cls, c) ==
    IF cls = <<>> THEN <<>>
    ELSE IF Head(cls) = c THEN Tail(cls)
    ELSE <<Head(cls)>> \o removeClause(Tail(cls), c)

\* a loop `for c : toRemove  program.removeClause(c)`
RECURSIVE removeClauses(_, _)
removeClauses(cls, toRemove) ==
    IF toRemove = <<>> THEN cls
    ELSE removeClauses(removeClause(cls, Head(toRemove)), Tail(toRemove))

\* getClauses(program, rel): positions of the clauses whose head names rel,
\* in program order
getClauses(cls, rel) ==
    SelectSeq([i \in 1..Len(cls) |-> i], LAMBDA i : cls[i].head.name = rel)

\* removeRelation(translationUnit, name): the declaration and the clauses
removeRelation(prog, name) ==
    [relations |-> SelectSeq(prog.relations, LAMBDA r : r # name),
     clauses   |-> SelectSeq(prog.clauses, LAMBDA c : c.head.name # name)]

-----------------------------------------------------------------------------
(* MinimiseProgram.cpp: the four reductions, as functions of the program   *)

\* ---- (a) reduceClauseBodies ----

\* the positions (0-based) the double loop inserts into redundantPositions
redundantPositions(bodyLiterals) ==
    {j \in 0..(Len(bodyLiterals) - 1) :
        \E i \in 0..(Len(bodyLiterals) - 1) :
            /\ j < i
            /\ bodyLiterals[i + 1] = bodyLiterals[j + 1]
            /\ \A j2 \in 0..(j - 1) : bodyLiterals[i + 1] # bodyLiterals[j2 + 1]}

\* variant (sensitivity of C14): no copy of a repeated literal is kept
minimisedClauseNoCopyKept(clause) ==
    LET keep == SelectSeq([i \in 1..Len(clause.body) |-> i],
                    LAMBDA i : \A j \in 1..Len(clause.body) :
                                  clause.body[j] = clause.body[i] => j = i)
    IN Clause(clause.head, [n \in 1..Len(keep) |-> clause.body[keep[n]]])

minimisedClause(clause) ==
    LET pos == redundantPositions(clause.body)
        keep == SelectSeq([i \in 1..Len(clause.body) |-> i - 1],
                          LAMBDA i : i \notin pos)
    IN Clause(clause.head, [n \in 1..Len(keep) |-> clause.body[keep[n] + 1]])

\* the clauses with a redundant position, in program order
clausesToReduce(cls) ==
    SelectSeq(cls, LAMBDA c : redundantPositions(c.body) # {})

\* variant (sensitivity of C13): the clauses with repeated literals are not
\* removed when their minimised copies are added
reduceClauseBodiesKeepOriginal(cls, order) ==
    LET old == clausesToReduce(cls)
        new == [n \in 1..Len(old) |-> minimisedClause(old[order[n]])]
    IN [clauses |-> cls \o new, changed |-> old # <<>>]

\* order: the order in which the std::set of new clauses is iterated
\* (a permutation of 1..Len(clausesToReduce(cls)))
reduceClauseBodies(cls, order) ==
    LET old == clausesToReduce(cls)
        new == [n \in 1..Len(old) |-> minimisedClause(old[order[n]])]
    IN [clauses |-> removeClauses(cls, old) \o new, changed |-> old # <<>>]

\* ---- (b) removeRedundantClauses ----

\* variant (sensitivity of C5): only the first body literal is compared
isRedundantFirstLiteral(clause) ==
    clause.body # <<>> /\ clause.head = clause.body[1]

isRedundant(clause) ==
    \E n \in 1..Len(clause.body) : clause.head = clause.body[n]

removeRedundantClauses(cls) ==
    LET clausesToRemove == SelectSeq(cls, isRedundant)
    IN [clauses |-> removeClauses(cls, clausesToRemove),
        changed |-> clausesToRemove # <<>>]

\* ---- (c) reduceLocallyEquivalentClauses ----

\* variant (sensitivity of C4): every clause joins the first class
findClassFirst(equivalenceClasses, norms, c, n) ==
    IF equivalenceClasses = <<>> THEN 0 ELSE 1

\* index of the first equivalence class whose representative is equivalent
\* to clause c (0: none)
RECURSIVE findClass(_, _, _, _)
findClass(equivalenceClasses, norms, c, n) ==
    IF n > Len(equivalenceClasses) THEN 0
    ELSE IF areBijectivelyEquivalent(norms[equivalenceClasses[n][1]], norms[c])
    THEN n
    ELSE findClass(equivalenceClasses, norms, c, n + 1)

\* the loop over the clauses of one relation; returns the clauses to delete
RECURSIVE classify(_, _, _, _)
\* n: the class found for the first of relClauses (0: none)
classifyInto(relClauses, norms, equivalenceClasses, toDelete, n) ==
    IF n # 0
    THEN classify(Tail(relClauses), norms,
                  [equivalenceClasses EXCEPT ![n] = Append(@, Head(relClauses))],
                  Append(toDelete, Head(relClauses)))
    ELSE classify(Tail(relClauses), norms,
                  Append(equivalenceClasses, <<Head(relClauses)>>), toDelete)

classify(relClauses, norms, equivalenceClasses, toDelete) ==
    IF relClauses = <<>> THEN toDelete
    ELSE classifyInto(relClauses, norms, equivalenceClasses, toDelete,
                      findClass(equivalenceClasses, norms, Head(relClauses), 1))

\* the loop over the relations; returns clausesToDelete (positions)
RECURSIVE locallyEquivalent(_, _, _, _)
locallyEquivalent(rels, cls, norms, toDelete) ==
    IF rels = <<>> THEN toDelete
    ELSE locallyEquivalent(Tail(rels), cls, norms,
            classify(getClauses(cls, Head(rels)), norms, <<>>, toDelete))

\* lines 302-308
deleteClauses(cls, clausesToDelete) ==
    [clauses |-> removeClauses(cls,
                    [n \in 1..Len(clausesToDelete) |-> cls[clausesToDelete[n]]]),
     changed |-> clausesToDelete # <<>>]

reduceLocallyEquivalentClauses(rels, cls, norms) ==
    deleteClauses(cls, locallyEquivalent(rels, cls, norms, <<>>))

\* ---- (d) reduceSingletonRelations ----

\* variant (sensitivity of C7): the I/O relations are compared too
singletonRelationClausesAll(rels, cls, io) ==
    LET single == SelectSeq(rels, LAMBDA r : Len(getClauses(cls, r)) = 1)
    IN [n \in 1..Len(single) |-> getClauses(cls, single[n])[1]]

singletonRelationClauses(rels, cls, io) ==
    LET single == SelectSeq(rels, LAMBDA r :
                      r \notin io /\ Len(getClauses(cls, r)) = 1)
    IN [n \in 1..Len(single) |-> getClauses(cls, single[n])[1]]

\* std::map::insert: an existing key keeps its value
MapInsert(m, k, v) == IF k \in DOMAIN m THEN m ELSE MapPut(m, k, v)

\* the inner loop over j for a fixed first; st = [redundant, canonicalName]
RECURSIVE pairSecond(_, _, _, _, _, _)
pairSecond(singles, cls, norms, i, j, st) ==
    IF j > Len(singles) THEN st
    ELSE LET first  == singles[i]
             second == singles[j]
         IN IF areBijectivelyEquivalent(norms[first], norms[second])
            THEN pairSecond(singles, cls, norms, i, j + 1,
                    [redundant     |-> st.redundant \cup {second},
                     canonicalName |-> MapInsert(st.canonicalName,
                                         cls[second].head.name,
                                         cls[first].head.name)])
            ELSE pairSecond(singles, cls, norms, i, j + 1, st)

\* the outer loop over i
RECURSIVE pairFirst(_, _, _, _, _)
pairFirst(singles, cls, norms, i, st) ==
    IF i > Len(singles) THEN st
    ELSE IF singles[i] \in st.redundant
    THEN pairFirst(singles, cls, norms, i + 1, st)
    ELSE pairFirst(singles, cls, norms, i + 1,
                   pairSecond(singles, cls, norms, i, i + 1, st))

\* variant (sensitivity of C6): atoms keep their names
renameLiteralKeepName(lit, canonicalName) == lit

\* replaceRedundantRelations: the node mapper, applied to every atom
RECURSIVE renameArgument(_, _)
RECURSIVE renameLiteral(_, _)
renameArgument(arg, canonicalName) ==
    IF arg.kind = "aggr"
    THEN [arg EXCEPT
            !.target = [n \in 1..Len(@) |-> renameArgument(@[n], canonicalName)],
            !.body   = [n \in 1..Len(@) |-> renameLiteral(@[n], canonicalName)]]
    ELSE arg

renameLiteral(lit, canonicalName) ==
    [lit EXCEPT
        !.name = IF lit.kind \in {"atom", "neg"} /\ @ \in DOMAIN canonicalName
                 THEN canonicalName[@] ELSE @,
        !.conc = [n \in 1..Len(@) |-> renameArgument(@[n], canonicalName)],
        !.lat  = [n \in 1..Len(@) |-> renameArgument(@[n], canonicalName)]]

renameClause(c, canonicalName) ==
    Clause(renameLiteral(c.head, canonicalName),
           [n \in 1..Len(c.body) |-> renameLiteral(c.body[n], canonicalName)])

RECURSIVE removeRelations(_, _)
removeRelations(prog, names) ==
    IF names = {} THEN prog
    ELSE LET n == CHOOSE x \in names : TRUE
         IN removeRelations(removeRelation(prog, n), names \ {n})

\* lines 364-391: removed is the program without the redundant relations
replaceRedundantRelations(removed, canonicalName) ==
    [relations     |-> removed.relations,
     clauses       |-> [n \in 1..Len(removed.clauses) |->
                          renameClause(removed.clauses[n], canonicalName)],
     canonicalName |-> canonicalName,
     changed       |-> DOMAIN canonicalName # {}]

\* lines 356-362: st = [redundant, canonicalName] as the pairwise loop left it
removeRedundantRelations(rels, cls, st) ==
    replaceRedundantRelations(
        removeRelations([relations |-> rels, clauses |-> cls],
                        {cls[c].head.name : c \in st.redundant}),
        st.canonicalName)

reduceSingletonRelations(rels, cls, io, norms) ==
    removeRedundantRelations(rels, cls,
        pairFirst(singletonRelationClauses(rels, cls, io), cls, norms, 1,
                  [redundant |-> {}, canonicalName |-> <<>>]))

-----------------------------------------------------------------------------
(* MinimiseProgramTransformer::transform, statement by statement.          *)
(* A translation unit is the record                                        *)
(*   [relations, clauses, normalisations, countUnnamed, changed,           *)
(*    lastChanged, canonical]                                              *)
(* normalisations is the analysis cache [valid, norms]; norms[i] is the    *)
(* normalisation of the clause at position i.                              *)

NoCache == [valid |-> FALSE, norms |-> <<>>]

\* AstTranslationUnit::invalidateAnalyses
invalidateAnalyses(tu) == [tu EXCEPT !.normalisations = NoCache]

\* r = [norms, cnt]: what ClauseNormalisationAnalysis::run produced
cacheAnalysis(tu, r) ==
    [tu EXCEPT !.normalisations = [valid |-> TRUE, norms |-> r.norms],
               !.countUnnamed = r.cnt]

\* AstTranslationUnit::getAnalysis<ClauseNormalisationAnalysis>: runs the
\* analysis unless it is cached
getAnalysis(tu) ==
    IF tu.normalisations.valid THEN tu
    ELSE cacheAnalysis(tu, runNormalisation(tu.clauses, tu.countUnnamed, <<>>))

\* variant (sensitivity of C15): the analyses are kept
invalidateNever(tu) == tu

\* `if (changed) tu.invalidateAnalyses();`
invalidateIfChanged(tu) == IF tu.changed THEN invalidateAnalyses(tu) ELSE tu

\* `changed = reduction(tu)`: the values returned earlier are forgotten
afterReductionLastOnly(tu, r) ==
    invalidateIfChanged([tu EXCEPT !.clauses = r.clauses,
                                   !.changed = r.changed,
                                   !.lastChanged = r.changed])

\* `changed |= reduction(tu); if (changed) tu.invalidateAnalyses();`
\* r = [clauses, changed]: the program and the value the reduction returned
afterReduction(tu, r) ==
    invalidateIfChanged([tu EXCEPT !.clauses = r.clauses,
                                   !.changed = tu.changed \/ r.changed,
                                   !.lastChanged = r.changed])

stepReduceClauseBodies(tu, order) ==
    afterReduction(tu, reduceClauseBodies(tu.clauses, order))

stepRemoveRedundantClauses(tu) ==
    afterReduction(tu, removeRedundantClauses(tu.clauses))

\* t: the translation unit with the analysis available
locallyWithAnalysis(t) ==
    afterReduction(t, reduceLocallyEquivalentClauses(
                         t.relations, t.clauses, t.normalisations.norms))

stepReduceLocallyEquivalentClauses(tu) == locallyWithAnalysis(getAnalysis(tu))

\* r = [relations, clauses, canonicalName, changed]
afterSingleton(t, r) ==
    [t EXCEPT !.relations = r.relations,
              !.clauses = r.clauses,
              !.canonical = r.canonicalName,
              !.changed = t.changed \/ r.changed,
              !.lastChanged = r.changed]

singletonWithAnalysis(t, io) ==
    afterSingleton(t, reduceSingletonRelations(t.relations, t.clauses, io,
                                               t.normalisations.norms))

\* the last statement: `changed |= reduceSingletonRelations(tu);`
stepReduceSingletonRelations(tu, io) == singletonWithAnalysis(getAnalysis(tu), io)

\* AstTransformer::apply around transform: a reported change invalidates
\* the analyses
applyReturn(tu) == invalidateIfChanged(tu)

\* the orders in which reduceClauseBodies may add its new clauses
addOrders(cls) == Permutations1(Len(clausesToReduce(cls)))

-----------------------------------------------------------------------------
(* Bounds and input universes *)

\* programs handed to transform: number of clauses plus number of body
\* literals
MaxSize == 5
\* clauses handed to the equivalence test: number of body literals
MaxBody == 3
\* transform runs per behaviour
MaxRuns == 2

\* ---- programs ----

ProgramRelations == <<"a", "b", "c">>

VarX == Var("X")
VarY == Var("Y")
VarL == Var("l")
VarK == Var("k")

ProgramHeads == {Atom(r, <<VarX>>, <<VarL>>) : r \in Range(ProgramRelations)}

ProgramLiterals ==
    {Atom("a", <<VarX>>, <<VarL>>), Atom("b", <<VarX>>, <<VarL>>), Atom("c", <<VarX>>, <<VarL>>),
     Atom("b", <<VarY>>, <<VarK>>),
     Negation(Atom("b", <<VarX>>, <<VarL>>)),
     BinaryConstraint("!=", VarX, Functor("f"))}

\* clauses with exactly n body literals
ProgramClauses(n) ==
    {Clause(h, b) : h \in ProgramHeads, b \in SeqOfLen(ProgramLiterals, n)}

\* clause lists of total weight at most w (a clause weighs 1 + body length)
RECURSIVE Programs(_)
Programs(w) ==
    IF w <= 0 THEN {<<>>}
    ELSE {<<>>} \cup
         UNION {{<<c>> \o p : c \in ProgramClauses(n), p \in Programs(w - 1 - n)} :
                   n \in 0..(w - 1)}

IOChoices == {{}, {"b"}}

\* ---- meaning of a program ----

\* the values of the arguments are 0 .. MaxValue
MaxValue == 1

\* assignments of values to the variables of the clauses
Valuations == [{"X", "Y", "l", "k"} -> 0..MaxValue]

\* the value of an argument: a variable has the value assigned to it, the
\* functor application f() has the value 0
valueOf(arg, v) == IF arg.kind = "var" THEN v[arg.name] ELSE 0

\* the tuple an atom stands for: concrete then lattice arguments
tupleOf(lit, v) ==
    [n \in 1..(Len(lit.conc) + Len(lit.lat)) |->
        valueOf((lit.conc \o lit.lat)[n], v)]

\* literal lit is true in interpretation I under valuation v
holds(lit, v, I) ==
    CASE lit.kind = "atom" -> tupleOf(lit, v) \in I[lit.name]
      [] lit.kind = "neg"  -> tupleOf(lit, v) \notin I[lit.name]
      [] OTHER -> valueOf(lit.conc[1], v) # valueOf(lit.conc[2], v)

\* the head tuples clause c derives from I
derived(c, I) ==
    {tupleOf(c.head, v) :
        v \in {w \in Valuations :
                  \A n \in 1..Len(c.body) : holds(c.body[n], w, I)}}

\* the immediate consequences of I: the facts read from outside (edb) and
\* what the clauses of each relation derive
consequences(cls, edb, I) ==
    [r \in DOMAIN edb |->
        edb[r] \cup UNION {derived(cls[n], I) :
                             n \in {m \in 1..Len(cls) : cls[m].head.name = r}}]

\* the least fixed point, reached by iteration from I
RECURSIVE leastFixedPointFrom(_, _, _, _)
leastFixedPointFrom(cls, edb, I, J) ==
    IF J = I THEN I
    ELSE leastFixedPointFrom(cls, edb, J, consequences(cls, edb, J))

leastFixedPoint(cls, edb) ==
    leastFixedPointFrom(cls, edb, edb, consequences(cls, edb, edb))

\* the facts the I/O relations io may read; other relations read none
ExternalFacts(io) ==
    {[r \in Range(ProgramRelations) |-> IF r \in io THEN t ELSE {}] :
        t \in {{}, {<<0, 0>>}}}

\* no clause negates an atom
positive(cls) ==
    \A n \in 1..Len(cls) : \A m \in 1..Len(cls[n].body) :
        cls[n].body[m].kind # "neg"

\* ---- clause pairs ----

PairVariables == {"X", "Y", "l", "k"}

PairHeads == {Atom("C", <<VarX>>, <<>>), Atom("C", <<Num("0")>>, <<>>)}

PairLiterals ==
    {Atom("B", <<VarX>>, <<>>), Atom("B", <<VarY>>, <<>>),
     Negation(Atom("B", <<VarX>>, <<>>)),
     Atom("L", <<VarX>>, <<VarL>>), Atom("L", <<VarY>>, <<VarL>>), Atom("L", <<VarY>>, <<VarK>>),
     Atom("L", <<Unnamed>>, <<VarK>>),
     BinaryConstraint("<", VarX, VarY), BinaryConstraint("!=", VarX, Num("0")),
     Atom("B", <<Functor("f")>>, <<>>), BooleanConstraint("true")}

PairClauses(n) ==
    {Clause(h, b) : h \in PairHeads, b \in SeqUpTo(PairLiterals, n)}

\* the facts A(c1,c2;c3) over the constants 0 and 1
Facts ==
    {Clause(Atom("A", <<Num(c1), Num(c2)>>, <<Num(c3)>>), <<>>) :
        c1 \in {"0", "1"}, c2 \in {"0", "1"}, c3 \in {"0", "1"}}

\* variable renamings applied to a clause
Renamings ==
    {[v \in PairVariables |->
        CASE v = "X" -> "Y" [] v = "Y" -> "X" [] v = "l" -> "k" [] OTHER -> "l"],
     [v \in PairVariables |->
        CASE v = "X" -> "U" [] v = "Y" -> "X" [] v = "l" -> "l" [] OTHER -> "m"]}

renameVarsArg(arg, f) ==
    IF arg.kind = "var" /\ arg.name \in DOMAIN f THEN Var(f[arg.name]) ELSE arg

renameVarsLit(lit, f) ==
    [lit EXCEPT !.conc = [n \in 1..Len(@) |-> renameVarsArg(@[n], f)],
                !.lat  = [n \in 1..Len(@) |-> renameVarsArg(@[n], f)]]

renameVars(c, f) ==
    Clause(renameVarsLit(c.head, f),
           [n \in 1..Len(c.body) |-> renameVarsLit(c.body[n], f)])

permuteBody(c, p) == Clause(c.head, [n \in 1..Len(c.body) |-> c.body[p[n]]])

\* c with the lattice argument of body literal n replaced by variable v
replaceLattice(c, n, v) ==
    Clause(c.head, [c.body EXCEPT ![n].lat = <<Var(v)>>])

\* c with every numeric constant 0 replaced by 1
replaceConstArg(arg) == IF arg = Num("0") THEN Num("1") ELSE arg
replaceConstLit(lit) ==
    [lit EXCEPT !.conc = [n \in 1..Len(@) |-> replaceConstArg(@[n])],
                !.lat  = [n \in 1..Len(@) |-> replaceConstArg(@[n])]]
replaceConst(c) ==
    Clause(replaceConstLit(c.head),
           [n \in 1..Len(c.body) |-> replaceConstLit(c.body[n])])

\* c as a clause of relation r
renameHead(c, r) == Clause([c.head EXCEPT !.name = r], c.body)

\* the clauses compared with c
Partners(c) ==
    {permuteBody(renameVars(c, f), p) :
        f \in Renamings, p \in Permutations1(Len(c.body))}
    \cup {replaceLattice(c, n, v) :
            n \in {i \in 1..Len(c.body) : Len(c.body[i].lat) = 1},
            v \in {"l", "k", "m"}}
    \cup {replaceConst(c), renameHead(c, "D")}
    \cup (IF Len(c.body) < MaxBody THEN PairClauses(MaxBody - 2) ELSE {})

\* ---- clauses with aggregators (CheckAggregatorEquivalence) ----

\* orders of the literals of an aggregator body that are tried
MaxShuffles == 2

Aggregator(op, target, body) ==
    [kind |-> "aggr", name |-> op, target |-> target, body |-> body]

\* the clauses of the test without the max aggregator and the atoms of B
\* inside the aggregators:
\* D(X) :- B(X), A(Z; l), Z = op A : { C(A), A > count : { A(M; lv), C(M) } }.
AggrBase(op, lv) ==
    Clause(Atom("D", <<Var("X")>>, <<>>),
      <<Atom("B", <<Var("X")>>, <<>>),
        Atom("A", <<Var("Z")>>, <<Var("l")>>),
        BinaryConstraint("=", Var("Z"),
            Aggregator(op, <<Var("A")>>,
                <<Atom("C", <<Var("A")>>, <<>>),
                  BinaryConstraint(">", Var("A"),
                      Aggregator("count", <<>>,
                          <<Atom("A", <<Var("M")>>, <<Var(lv)>>),
                            Atom("C", <<Var("M")>>, <<>>)>>))>>))>>)

AggrBases == {AggrBase(op, lv) : op \in {"sum", "min"}, lv \in {"l", "k"}}

AggrVariables == {"X", "Z", "A", "M", "l", "k"}

\* the identity, the renaming of the test's second clause and one that
\* exchanges names between scopes
AggrRenamings ==
    {[v \in AggrVariables |-> v],
     [v \in AggrVariables |->
        CASE v = "X" -> "V" [] v = "Z" -> "W" [] v = "A" -> "test1"
          [] v = "M" -> "X" [] v = "l" -> "k" [] OTHER -> "l"],
     [v \in AggrVariables |->
        CASE v = "X" -> "A" [] v = "Z" -> "M" [] v = "A" -> "Z"
          [] v = "M" -> "X" [] OTHER -> v]}

\* renaming of the variables at every depth
RECURSIVE deepRenameArg(_, _)
RECURSIVE deepRenameLit(_, _)
deepRenameArg(arg, f) ==
    IF arg.kind = "aggr"
    THEN [arg EXCEPT
            !.target = [n \in 1..Len(@) |-> deepRenameArg(@[n], f)],
            !.body   = [n \in 1..Len(@) |-> deepRenameLit(@[n], f)]]
    ELSE renameVarsArg(arg, f)

deepRenameLit(lit, f) ==
    [lit EXCEPT !.conc = [n \in 1..Len(@) |-> deepRenameArg(@[n], f)],
                !.lat  = [n \in 1..Len(@) |-> deepRenameArg(@[n], f)]]

deepRename(c, f) ==
    Clause(deepRenameLit(c.head, f),
           [n \in 1..Len(c.body) |-> deepRenameLit(c.body[n], f)])

\* s rotated by k places
rotate(s, k) == [n \in 1..Len(s) |-> s[((n - 1 + k) % Len(s)) + 1]]

\* every aggregator body rotated by k places
RECURSIVE shuffleArg(_, _)
RECURSIVE shuffleLit(_, _)
shuffleArg(arg, k) ==
    IF arg.kind = "aggr"
    THEN [arg EXCEPT
            !.body = rotate([n \in 1..Len(@) |-> shuffleLit(@[n], k)], k)]
    ELSE arg

shuffleLit(lit, k) ==
    [lit EXCEPT !.conc = [n \in 1..Len(@) |-> shuffleArg(@[n], k)]]

shuffle(c, k) ==
    Clause(c.head, [n \in 1..Len(c.body) |-> shuffleLit(c.body[n], k)])

\* b with other variable names, other orders inside the aggregators and
\* another order of the outer body
Variants(b) ==
    {permuteBody(shuffle(deepRename(b, f), k), p) :
        f \in AggrRenamings, k \in 0..(MaxShuffles - 1),
        p \in Permutations1(Len(b.body))}

AggrRelations == <<"A", "B", "C", "D">>
AggrIO        == {"B", "C", "D"}


-----------------------------------------------------------------------------
(* State machine *)

NoClause == Clause(Atom("", <<>>, <<>>), <<>>)
NoNorm   == EmptyNormalisedClause(0)
NoProgram == [relations |-> <<>>, clauses |-> <<>>]

\* the translation unit held in the variables
TU == [relations |-> relations, clauses |-> clauses,
       normalisations |-> normalisations, countUnnamed |-> countUnnamed,
       changed |-> changed, lastChanged |-> lastChanged,
       canonical |-> canonical]

Program == [relations |-> relations, clauses |-> clauses]

SetTU(t) ==
    /\ relations' = t.relations
    /\ clauses' = t.clauses
    /\ normalisations' = t.normalisations
    /\ countUnnamed' = t.countUnnamed
    /\ changed' = t.changed
    /\ lastChanged' = t.lastChanged
    /\ canonical' = t.canonical

pairVars == <<left, right, normLeft, normRight, equivalent>>

reorderVars == <<sips, clauseIdx, replacedClauses, atoms, bindingStore, newOrder>>

lowerVars == <<version, planOrders, translating, translated>>

parserVars == <<directives, declarations, diagnostics, srcLoc, lastCall>>

searchVars == <<candidateMatrix, searchState, submitted>>

otherVars == <<lowerVars, parserVars, searchVars, given>>

\* the variables of the lowering, of the parser driver and of the
\* permutation search while these are not running
LowerIdle ==
    /\ version = 0
    /\ planOrders = <<>>
    /\ translating = NoClause
    /\ translated = <<>>

ParserIdle ==
    /\ directives = <<>>
    /\ declarations = <<>>
    /\ diagnostics = <<>>
    /\ srcLoc = 1
    /\ lastCall = <<>>

SearchIdle ==
    /\ candidateMatrix = <<>>
    /\ searchState = <<>>
    /\ submitted = {}

InitCommon ==
    /\ normalisations = NoCache
    /\ countUnnamed = 0
    /\ changed = FALSE
    /\ lastChanged = FALSE
    /\ before = NoProgram
    /\ canonical = <<>>
    /\ runs = 0
    /\ firstResult = NoProgram
    /\ normLeft = NoNorm
    /\ normRight = NoNorm
    /\ equivalent = FALSE
    /\ sips = "all-bound"
    /\ clauseIdx = 0
    /\ replacedClauses = <<>>
    /\ atoms = <<>>
    /\ bindingStore = {}
    /\ newOrder = <<>>
    /\ LowerIdle
    /\ ParserIdle
    /\ SearchIdle
    /\ given = Program

\* a parsed program, before the transformer is applied
Init ==
    /\ relations = ProgramRelations
    /\ clauses \in Programs(MaxSize)
    /\ ioRelations \in IOChoices
    /\ pc = "reduceClauseBodies"
    /\ left = NoClause
    /\ right = NoClause
    /\ InitCommon

\* transform, line 461-462
ReduceClauseBodies ==
    /\ pc = "reduceClauseBodies"
    /\ \E order \in addOrders(clauses) :
          SetTU(stepReduceClauseBodies([TU EXCEPT !.changed = FALSE], order))
    /\ before' = Program
    /\ pc' = "removeRedundantClauses"
    /\ UNCHANGED <<ioRelations, runs, firstResult, pairVars, reorderVars, otherVars>>

\* transform, line 463-464
RemoveRedundantClauses ==
    /\ pc = "removeRedundantClauses"
    /\ SetTU(stepRemoveRedundantClauses(TU))
    /\ before' = Program
    /\ pc' = "reduceLocallyEquivalentClauses"
    /\ UNCHANGED <<ioRelations, runs, firstResult, pairVars, reorderVars, otherVars>>

\* transform, line 465-466
ReduceLocallyEquivalentClauses ==
    /\ pc = "reduceLocallyEquivalentClauses"
    /\ SetTU(stepReduceLocallyEquivalentClauses(TU))
    /\ before' = Program
    /\ pc' = "reduceSingletonRelations"
    /\ UNCHANGED <<ioRelations, runs, firstResult, pairVars, reorderVars, otherVars>>

\* transform, line 467
ReduceSingletonRelations ==
    /\ pc = "reduceSingletonRelations"
    /\ SetTU(stepReduceSingletonRelations(TU, ioRelations))
    /\ before' = Program
    /\ pc' = "return"
    /\ UNCHANGED <<ioRelations, runs, firstResult, pairVars, reorderVars, otherVars>>

\* transform, line 468, and the return into apply
Return ==
    /\ pc = "return"
    /\ SetTU(applyReturn(TU))
    /\ runs' = runs + 1
    /\ firstResult' = IF runs = 0 THEN Program ELSE firstResult
    /\ pc' = "done"
    /\ UNCHANGED <<ioRelations, before, pairVars, reorderVars, otherVars>>

\* the transformer is applied again to the program it left
Apply ==
    /\ pc = "done"
    /\ runs < MaxRuns
    /\ given' = Program
    /\ pc' = "reduceClauseBodies"
    /\ UNCHANGED <<relations, clauses, ioRelations, normalisations, countUnnamed,
                   changed, lastChanged, before, canonical, runs, firstResult,
                   pairVars, reorderVars, lowerVars, parserVars, searchVars>>

Next ==
    \/ ReduceClauseBodies
    \/ RemoveRedundantClauses
    \/ ReduceLocallyEquivalentClauses
    \/ ReduceSingletonRelations
    \/ Return
    \/ Apply

Spec == Init /\ [][Next]_vars

\* ---- the equivalence test on a pair of clauses, then one run of the
\*      transformer on the program that consists of the two clauses ----

relationsOf(cls) ==
    LET names == {cls[n].head.name : n \in 1..Len(cls)}
                 \cup UNION {{cls[n].body[m].name : m \in
                       {i \in 1..Len(cls[n].body) : cls[n].body[i].kind \in {"atom", "neg"}}} :
                       n \in 1..Len(cls)}
    IN SelectSeq(<<"A", "B", "C", "D", "L">>, LAMBDA r : r \in names)

InitPair(c, d) ==
    /\ left = c
    /\ right = d
    /\ clauses = <<c, d>>
    /\ relations = relationsOf(<<c, d>>)

InitEquiv ==
    /\ \/ \E c \in Facts : \E d \in Facts : InitPair(c, d)
       \/ \E c \in PairClauses(MaxBody) : \E d \in Partners(c) : InitPair(c, d)
    /\ ioRelations = {}
    /\ pc = "normaliseLeft"
    /\ InitCommon

\* const auto normL = NormalisedClause(left)
NormaliseLeft ==
    /\ pc = "normaliseLeft"
    /\ normLeft' = NormalisedClause(left, countUnnamed)
    /\ countUnnamed' = normLeft'.countUnnamed
    /\ pc' = "normaliseRight"
    /\ UNCHANGED <<relations, clauses, ioRelations, normalisations, changed,
                   lastChanged, before, canonical, runs, firstResult, reorderVars, otherVars,
                   left, right, normRight, equivalent>>

\* const auto normR = NormalisedClause(right)
NormaliseRight ==
    /\ pc = "normaliseRight"
    /\ normRight' = NormalisedClause(right, countUnnamed)
    /\ countUnnamed' = normRight'.countUnnamed
    /\ pc' = "areBijectivelyEquivalent"
    /\ UNCHANGED <<relations, clauses, ioRelations, normalisations, changed,
                   lastChanged, before, canonical, runs, firstResult, reorderVars, otherVars,
                   left, right, normLeft, equivalent>>

\* MinimiseProgramTransformer::areBijectivelyEquivalent(normL, normR)
AreBijectivelyEquivalent ==
    /\ pc = "areBijectivelyEquivalent"
    /\ equivalent' = areBijectivelyEquivalent(normLeft, normRight)
    /\ pc' = "reduceClauseBodies"
    /\ UNCHANGED <<relations, clauses, ioRelations, normalisations, countUnnamed,
                   changed, lastChanged, before, canonical, runs, firstResult, reorderVars, otherVars,
                   left, right, normLeft, normRight>>

NextEquiv ==
    \/ NormaliseLeft
    \/ NormaliseRight
    \/ AreBijectivelyEquivalent
    \/ ReduceClauseBodies
    \/ RemoveRedundantClauses
    \/ ReduceLocallyEquivalentClauses
    \/ ReduceSingletonRelations
    \/ Return

SpecEquiv == InitEquiv /\ [][NextEquiv]_vars

\* ---- the same on two clauses with aggregators of the output relation D ----

InitAggr ==
    /\ \E b \in AggrBases : \E c \in AggrBases : \E d \in Variants(c) :
          /\ left = b
          /\ right = d
          /\ clauses = <<b, d>>
    /\ relations = AggrRelations
    /\ ioRelations = AggrIO
    /\ pc = "normaliseLeft"
    /\ InitCommon

SpecAggr == InitAggr /\ [][NextEquiv]_vars

-----------------------------------------------------------------------------
(* ReorderLiterals.cpp: SIPS-directed reordering of the body atoms         *)
(*                                                                         *)
(* Indices into the atom vector are 0-based as in the source; the entry of *)
(* index i is atomVec[i + 1].  The profile-guided second pass of transform *)
(* (lines 347-407) runs only with the option profile-use and is not part   *)
(* of the model.                                                           *)

\* the null pointer: a consumed entry of the atom vector, and the result of
\* reorderClauseWithSips when the clause is to be left alone
nullptr == [kind |-> "nullptr", name |-> "", conc |-> <<>>, lat |-> <<>>]

\* AstClause with its optional execution plan (plan: whether one is attached)
PlannedClause(h, b, p) == [head |-> h, body |-> b, plan |-> p]

\* clause->getExecutionPlan() != nullptr
hasExecutionPlan(clause) == clause.plan

\* isProposition(atom): the atom has no arguments
isProposition(atom) == Len(atom.conc) + Len(atom.lat) = 0

\* BindingStore::isBound on an argument: a variable is bound when the store
\* holds its name; a constant is grounded
isBound(store, arg) == IF arg.kind = "var" THEN arg.name \in store ELSE TRUE

\* BindingStore::numBoundArguments(atom): the concrete-argument positions
\* whose argument is grounded
numBoundArguments(store, atom) ==
    Cardinality({n \in 1..Len(atom.conc) : isBound(store, atom.conc[n])})

\* BindingStore(clause): the variables bound before the body begins, those
\* that an equality constraint of the body equates to a constant
BindingStore(clause) ==
    LET eqs == {n \in 1..Len(clause.body) :
                   clause.body[n].kind = "bc" /\ clause.body[n].name = "="}
        side(n, a, b) == /\ clause.body[n].conc[a].kind = "var"
                         /\ clause.body[n].conc[b].kind \in {"num", "str", "nil"}
    IN {clause.body[n].conc[1].name : n \in {m \in eqs : side(m, 1, 2)}}
       \cup {clause.body[n].conc[2].name : n \in {m \in eqs : side(m, 2, 1)}}

\* visitDepthFirst(*currAtom, AstVariable): the names of the variables that
\* occur in the atom, concrete and lattice arguments alike
atomVariables(atom) ==
    {atom.conc[n].name : n \in {k \in 1..Len(atom.conc) : atom.conc[k].kind = "var"}}
    \cup {atom.lat[n].name : n \in {k \in 1..Len(atom.lat) : atom.lat[k].kind = "var"}}

\* the last entry that is not null, where the code takes the first
lastNonNull(atomVec) ==
    LET live == {i \in 0..(Len(atomVec) - 1) : atomVec[i + 1] # nullptr}
    IN IF live = {} THEN 0 ELSE CHOOSE i \in live : \A j \in live : i >= j

\* getSipsFunction, the fallback loops (lines 73-80, 107-114, 250-261): the
\* first entry that is not null, index 0 when every entry is null
firstNonNull(atomVec) ==
    LET live == {i \in 0..(Len(atomVec) - 1) : atomVec[i + 1] # nullptr}
    IN IF live = {} THEN 0 ELSE CHOOSE i \in live : \A j \in live : i <= j

\* the test of the first loop of naive (lines 63-69) and all-bound (96-103)
qualifies(sipsChosen, atom, store) ==
    \/ isProposition(atom)
    \/ IF sipsChosen = "naive" THEN numBoundArguments(store, atom) >= 1
       ELSE numBoundArguments(store, atom) = Len(atom.conc)

\* naive (lines 50-81), all-bound (82-115): the first entry that qualifies,
\* else the first entry that is not null
firstQualifying(sipsChosen, atomVec, store) ==
    LET hits == {i \in 0..(Len(atomVec) - 1) :
                    /\ atomVec[i + 1] # nullptr
                    /\ qualifies(sipsChosen, atomVec[i + 1], store)}
    IN IF hits = {} THEN firstNonNull(atomVec)
       ELSE CHOOSE i \in hits : \A j \in hits : i <= j

\* the quantity a scanning policy computes for a non-proposition atom:
\* numBound (line 135), (numBound, arity) (165-167), numFree (196-198), and
\* freeVars.size() (227-234), where line 230 inserts the variables for
\* which isBound is true
sipsValue(sipsChosen, atom, store) ==
    CASE sipsChosen = "max-bound" -> numBoundArguments(store, atom)
      [] sipsChosen = "max-ratio" ->
            <<numBoundArguments(store, atom), Len(atom.conc)>>
      [] sipsChosen = "least-free" ->
            Len(atom.conc) - numBoundArguments(store, atom)
      [] OTHER -> Cardinality({v \in atomVariables(atom) : v \in store})

\* starts the scan at 0, where the code starts below every value
sipsInitialZero(sipsChosen) == IF sipsChosen = "max-ratio" THEN <<0, 1>> ELSE 0

\* the initial value of currMaxBound, currMaxRatio, currLeastFree
sipsInitial(sipsChosen) == IF sipsChosen = "max-ratio" THEN <<-1, 1>> ELSE -1

\* isLargerRatio (lines 148-150)
isLargerRatio(lhs, rhs) == lhs[1] * rhs[2] > lhs[2] * rhs[1]

\* max-bound takes a later atom of the same value
sipsImprovesOrTies(sipsChosen, value, curr) ==
    CASE sipsChosen = "max-bound" -> value >= curr
      [] sipsChosen = "max-ratio" -> isLargerRatio(value, curr)
      [] OTHER -> curr = -1 \/ value < curr

\* the update test of a scanning policy (lines 136, 168, 199, 235)
sipsImproves(sipsChosen, value, curr) ==
    CASE sipsChosen = "max-bound" -> value > curr
      [] sipsChosen = "max-ratio" -> isLargerRatio(value, curr)
      [] OTHER -> curr = -1 \/ value < curr

\* the loop of max-bound (123-141), max-ratio (155-175), least-free
\* (184-204), least-free-vars (213-240) from index i on
RECURSIVE scanAtoms(_, _, _, _, _, _)
scanAtoms(sipsChosen, atomVec, store, i, curr, currIdx) ==
    IF i >= Len(atomVec) THEN currIdx
    ELSE IF atomVec[i + 1] = nullptr
    THEN scanAtoms(sipsChosen, atomVec, store, i + 1, curr, currIdx)
    ELSE IF isProposition(atomVec[i + 1]) THEN i
    ELSE IF sipsImproves(sipsChosen, sipsValue(sipsChosen, atomVec[i + 1], store), curr)
    THEN scanAtoms(sipsChosen, atomVec, store, i + 1,
                   sipsValue(sipsChosen, atomVec[i + 1], store), i)
    ELSE scanAtoms(sipsChosen, atomVec, store, i + 1, curr, currIdx)

\* getSipsFunction(sipsChosen) applied to (atoms, bindingStore)
getSipsFunction(sipsChosen, atomVec, store) ==
    IF sipsChosen = "naive" THEN firstQualifying("naive", atomVec, store)
    ELSE IF sipsChosen \in {"all-bound", "ast2ram"}
    THEN firstQualifying("all-bound", atomVec, store)
    ELSE IF sipsChosen \in {"max-bound", "max-ratio", "least-free", "least-free-vars"}
    THEN scanAtoms(sipsChosen, atomVec, store, 0, sipsInitial(sipsChosen), 0)
    ELSE firstNonNull(atomVec)

\* getBodyLiterals<AstAtom>(clause)
getBodyAtoms(clause) == SelectSeq(clause.body, LAMBDA l : l.kind = "atom")

\* getOrderingAfterSIPS, lines 281-285: the variables among the concrete
\* arguments of the chosen atom
boundBy(atom) ==
    {atom.conc[n].name : n \in {k \in 1..Len(atom.conc) : atom.conc[k].kind = "var"}}

\* leaves the chosen atom in the vector, where the code nulls its entry
chooseAtomNotConsumed(st, nextIdx) ==
    IF st.atoms[nextIdx + 1] = nullptr THEN [st EXCEPT !.defined = FALSE]
    ELSE [atoms |-> st.atoms,
          bindingStore |-> st.bindingStore \cup boundBy(st.atoms[nextIdx + 1]),
          newOrder |-> Append(st.newOrder, nextIdx),
          defined |-> st.defined]

\* one iteration of the loop of getOrderingAfterSIPS (lines 276-290) on
\* st = [atoms, bindingStore, newOrder, defined] with nextIdx the index the
\* policy returned.  atoms[nextIdx] null makes line 281 dereference a null
\* pointer: the behaviour is undefined from there on (defined = FALSE).
chooseAtom(st, nextIdx) ==
    IF st.atoms[nextIdx + 1] = nullptr THEN [st EXCEPT !.defined = FALSE]
    ELSE [atoms |-> [st.atoms EXCEPT ![nextIdx + 1] = nullptr],
          bindingStore |-> st.bindingStore \cup boundBy(st.atoms[nextIdx + 1]),
          newOrder |-> Append(st.newOrder, nextIdx),
          defined |-> st.defined]

\* getOrderingAfterSIPS(sipsFunction, clause), the loop from the state st on
RECURSIVE orderingFrom(_, _)
orderingFrom(sipsChosen, st) ==
    IF ~st.defined \/ Len(st.newOrder) >= Len(st.atoms) THEN st
    ELSE orderingFrom(sipsChosen,
             chooseAtom(st, getSipsFunction(sipsChosen, st.atoms, st.bindingStore)))

getOrderingAfterSIPS(sipsChosen, clause) ==
    orderingFrom(sipsChosen, [atoms |-> getBodyAtoms(clause),
                              bindingStore |-> BindingStore(clause),
                              newOrder |-> <<>>, defined |-> TRUE])

\* reorderAtoms(clause, newOrder): the atom of index newOrder[k] among the
\* atoms goes to the k-th atom position; the other literals stay
reorderAtoms(clause, newOrdering) ==
    LET body == clause.body
        atomPositions == SelectSeq([n \in 1..Len(body) |-> n],
                                   LAMBDA n : body[n].kind = "atom")
        rank(n) == Cardinality({m \in 1..n : body[m].kind = "atom"})
    IN [clause EXCEPT !.body =
           [n \in 1..Len(body) |->
               IF body[n].kind = "atom"
               THEN body[atomPositions[newOrdering[rank(n)] + 1]]
               ELSE body[n]]]

\* asks for a new clause whenever the clause has body atoms
changeNeededAlways(newOrdering) == newOrdering # <<>>

\* reorderClauseWithSips, lines 303-313
changeNeeded(newOrdering) ==
    \E i \in 0..(Len(newOrdering) - 1) : newOrdering[i + 1] # i

reorderClauseWithSips(clause, newOrdering) ==
    IF changeNeeded(newOrdering) THEN reorderAtoms(clause, newOrdering) ELSE nullptr

\* ---- inputs ----

MaxLiterals == 3

SipsNames == {"naive", "all-bound", "max-bound", "max-ratio", "least-free",
              "least-free-vars", "ast2ram", "none"}

ReorderHead == Atom("h", <<Var("X")>>, <<>>)

\* the atoms p(X,Y), q(X), r(Y), the proposition t, q(1), s(Y; l), the
\* negation !q(X) and the constraint X = 1
ReorderLiterals ==
    {Atom("p", <<Var("X"), Var("Y")>>, <<>>),
     Atom("q", <<Var("X")>>, <<>>),
     Atom("r", <<Var("Y")>>, <<>>),
     Atom("t", <<>>, <<>>),
     Atom("q", <<Num("1")>>, <<>>),
     Atom("s", <<Var("Y")>>, <<Var("l")>>),
     Negation(Atom("q", <<Var("X")>>, <<>>)),
     BinaryConstraint("=", Var("X"), Num("1"))}

ReorderClauses(n) ==
    {PlannedClause(ReorderHead, b, p) : b \in SeqUpTo(ReorderLiterals, n), p \in BOOLEAN}

\* h(X) :- p(X,Y), q(X), r(Y).
ScenarioClause ==
    PlannedClause(ReorderHead,
                  <<Atom("p", <<Var("X"), Var("Y")>>, <<>>),
                    Atom("q", <<Var("X")>>, <<>>),
                    Atom("r", <<Var("Y")>>, <<>>)>>, FALSE)

\* clauses that follow the first one: a fact, the scenario clause and a
\* clause that every policy but the identity reorders
SecondClauses ==
    {PlannedClause(Atom("q", <<Num("1")>>, <<>>), <<>>, FALSE),
     ScenarioClause,
     PlannedClause(ReorderHead,
                   <<Atom("r", <<Var("Y")>>, <<>>),
                     BinaryConstraint("=", Var("X"), Num("1")),
                     Atom("q", <<Var("X")>>, <<>>)>>, FALSE)}

ReorderPrograms ==
    {<<c>> : c \in ReorderClauses(MaxLiterals)}
    \cup {<<c, d>> : c \in ReorderClauses(MaxLiterals), d \in SecondClauses}

ReorderRelations == <<"h", "p", "q", "r", "s", "t">>

\* ---- ReorderLiteralsTransformer::transform, lines 316-345 ----

minimiseVars == <<relations, ioRelations, normalisations, countUnnamed,
                  lastChanged, before, canonical, runs, firstResult, pairVars,
                  otherVars>>

InitReorder ==
    /\ sips \in SipsNames
    /\ clauses \in ReorderPrograms
    /\ relations = ReorderRelations
    /\ ioRelations = {}
    /\ before = [relations |-> ReorderRelations, clauses |-> clauses]
    /\ pc = "transform"
    /\ normalisations = NoCache
    /\ countUnnamed = 0
    /\ changed = FALSE
    /\ lastChanged = FALSE
    /\ canonical = <<>>
    /\ runs = 0
    /\ firstResult = NoProgram
    /\ left = NoClause
    /\ right = NoClause
    /\ normLeft = NoNorm
    /\ normRight = NoNorm
    /\ equivalent = FALSE
    /\ clauseIdx = 0
    /\ replacedClauses = <<>>
    /\ atoms = <<>>
    /\ bindingStore = {}
    /\ newOrder = <<>>
    /\ LowerIdle
    /\ ParserIdle
    /\ SearchIdle
    /\ given = Program

\* the clauses that program.getClauses() returned when the loop began
numClauses == Len(clauses) - Len(replacedClauses)

\* line 331 into reorderClauseWithSips (296-298) and getOrderingAfterSIPS
\* (269-274): the next clause of the loop; one with an execution plan is
\* passed over
ReorderClause ==
    /\ pc = "transform"
    /\ clauseIdx < numClauses
    /\ IF hasExecutionPlan(clauses[clauseIdx + 1])
       THEN /\ clauseIdx' = clauseIdx + 1
            /\ UNCHANGED <<pc, atoms, bindingStore, newOrder>>
       ELSE /\ atoms' = getBodyAtoms(clauses[clauseIdx + 1])
            /\ bindingStore' = BindingStore(clauses[clauseIdx + 1])
            /\ newOrder' = <<>>
            /\ pc' = "getOrderingAfterSIPS"
            /\ UNCHANGED clauseIdx
    /\ UNCHANGED <<clauses, changed, sips, replacedClauses, minimiseVars>>

\* getOrderingAfterSIPS, one iteration of the loop (lines 275-290)
ChooseAtom ==
    /\ pc = "getOrderingAfterSIPS"
    /\ Len(newOrder) < Len(atoms)
    /\ \E st \in {chooseAtom([atoms |-> atoms, bindingStore |-> bindingStore,
                              newOrder |-> newOrder, defined |-> TRUE],
                             getSipsFunction(sips, atoms, bindingStore))} :
          /\ atoms' = st.atoms
          /\ bindingStore' = st.bindingStore
          /\ newOrder' = st.newOrder
          /\ pc' = IF st.defined THEN pc ELSE "undefined"
    /\ UNCHANGED <<clauses, changed, sips, clauseIdx, replacedClauses, minimiseVars>>

\* getOrderingAfterSIPS returns (line 292), reorderClauseWithSips decides
\* (303-313), transform swaps the clause (332-336)
SwapClause ==
    /\ pc = "getOrderingAfterSIPS"
    /\ Len(newOrder) >= Len(atoms)
    /\ \E newClause \in {reorderClauseWithSips(clauses[clauseIdx + 1], newOrder)} :
          IF newClause # nullptr
          THEN /\ replacedClauses' = Append(replacedClauses, clauses[clauseIdx + 1])
               /\ clauses' = Append(clauses, newClause)
          ELSE UNCHANGED <<clauses, replacedClauses>>
    /\ clauseIdx' = clauseIdx + 1
    /\ pc' = "transform"
    /\ UNCHANGED <<changed, sips, atoms, bindingStore, newOrder, minimiseVars>>

\* transform, lines 340-343, and the return without profile-use
RemoveClauses ==
    /\ pc = "transform"
    /\ clauseIdx >= numClauses
    /\ changed' = (changed \/ replacedClauses # <<>>)
    /\ clauses' = removeClauses(clauses, replacedClauses)
    /\ pc' = "done"
    /\ UNCHANGED <<sips, clauseIdx, replacedClauses, atoms, bindingStore,
                   newOrder, minimiseVars>>

\* the transformer is applied once more to the program it returned:
\* transform, lines 316-329, with its locals as declared; runs counts the
\* runs before this one, lastChanged is what the last of them returned and
\* before is the program this run is given
TransformAgain ==
    /\ pc = "done"
    /\ runs + 1 < MaxRuns
    /\ runs' = runs + 1
    /\ before' = [relations |-> relations, clauses |-> clauses]
    /\ lastChanged' = changed
    /\ changed' = FALSE
    /\ clauseIdx' = 0
    /\ replacedClauses' = <<>>
    /\ atoms' = <<>>
    /\ bindingStore' = {}
    /\ newOrder' = <<>>
    /\ pc' = "transform"
    /\ UNCHANGED <<relations, clauses, ioRelations, normalisations, countUnnamed,
                   canonical, firstResult, pairVars, sips, otherVars>>

NextReorder ==
    \/ ReorderClause
    \/ ChooseAtom
    \/ SwapClause
    \/ RemoveClauses
    \/ TransformAgain

SpecReorder == InitReorder /\ [][NextReorder]_vars

-----------------------------------------------------------------------------
(* ClauseNormalisation.cpp: ClauseNormalisationAnalysis::run on a program, *)
(* and again after the analyses were invalidated.  The static counter of   *)
(* normaliseArgument lives as long as the process.                         *)

MaxNormBody == 2

MaxAnalyses == 2

\* C(X), C(X; l) and D(X, count : { C(A) })
NormHeads ==
    {Atom("C", <<Var("X")>>, <<>>),
     Atom("C", <<Var("X")>>, <<Var("l")>>),
     Atom("D", <<Var("X"),
                 Aggregator("count", <<>>, <<Atom("C", <<Var("A")>>, <<>>)>>)>>,
          <<>>)}

\* B(X), B(_) and L(_; k)
NormLiterals ==
    {Atom("B", <<Var("X")>>, <<>>),
     Atom("B", <<Unnamed>>, <<>>),
     Atom("L", <<Unnamed>>, <<Var("k")>>)}

NormClauses(n) == {Clause(h, b) : h \in NormHeads, b \in SeqUpTo(NormLiterals, n)}

NormPrograms ==
    {<<c>> : c \in NormClauses(MaxNormBody)}
    \cup {<<c, d>> : c \in NormClauses(MaxNormBody), d \in NormClauses(MaxNormBody)}

normVars == <<relations, clauses, ioRelations, changed, lastChanged, before,
              canonical, firstResult, pairVars, reorderVars, otherVars>>

InitNorm ==
    /\ clauses \in NormPrograms
    /\ relations = <<"B", "C", "D", "L">>
    /\ ioRelations = {}
    /\ pc = "run"
    /\ left = NoClause
    /\ right = NoClause
    /\ InitCommon

\* run, lines 162-165: one iteration of the loop, on the next clause of
\* program order
RunClause ==
    /\ pc = "run"
    /\ Len(normalisations.norms) < Len(clauses)
    /\ \E n \in {NormalisedClause(clauses[Len(normalisations.norms) + 1], countUnnamed)} :
          /\ normalisations' = [normalisations EXCEPT !.norms = Append(@, n)]
          /\ countUnnamed' = n.countUnnamed
    /\ UNCHANGED <<pc, runs, normVars>>

\* run returns; getAnalysis keeps the analysis in its cache
RunReturn ==
    /\ pc = "run"
    /\ Len(normalisations.norms) >= Len(clauses)
    /\ normalisations' = [normalisations EXCEPT !.valid = TRUE]
    /\ runs' = runs + 1
    /\ pc' = "analysed"
    /\ UNCHANGED <<countUnnamed, normVars>>

\* invalidateAnalyses, and the analysis is asked for again
InvalidateAnalyses ==
    /\ pc = "analysed"
    /\ runs < MaxAnalyses
    /\ normalisations' = NoCache
    /\ pc' = "run"
    /\ UNCHANGED <<countUnnamed, runs, normVars>>

NextNorm ==
    \/ RunClause
    \/ RunReturn
    \/ InvalidateAnalyses

SpecNorm == InitNorm /\ [][NextNorm]_vars

-----------------------------------------------------------------------------
(* ClauseTranslator.cpp: translateClause picks the clause it translates    *)
(* (lines 66-71, 401-431).  The policy of context.getSipsMetric() is the   *)
(* variable sips.                                                          *)

\* getReorderedClause(clause, version); orders are the orders of the
\* clause's plan by version, positions counted from 1
getReorderedClause(clause, orders, v, sipsChosen) ==
    IF ~hasExecutionPlan(clause)
    THEN reorderClauseWithSips(clause, getOrderingAfterSIPS(sipsChosen, clause).newOrder)
    ELSE IF v \notin DOMAIN orders THEN nullptr
    ELSE [reorderAtoms(clause, [k \in 1..Len(orders[v]) |-> orders[v][k] - 1])
            EXCEPT !.plan = FALSE]

\* ---- inputs ----

Versions == {0, 1}

\* a clause without plan (plan FALSE, no orders) or with a plan that has
\* an order, a permutation of 1..n for n body atoms, for one version
PlansFor(body) ==
    {[plan |-> FALSE, orders |-> <<>>]}
    \cup {[plan |-> TRUE, orders |-> [w \in {v} |-> p]] :
             v \in Versions,
             p \in Permutations1(Len(SelectSeq(body, LAMBDA l : l.kind = "atom")))}

InitLower ==
    /\ sips \in SipsNames
    /\ version \in Versions
    /\ \E b \in SeqUpTo(ReorderLiterals, MaxLiterals) : \E p \in PlansFor(b) :
          /\ clauses = <<PlannedClause(ReorderHead, b, p.plan)>>
          /\ translating = PlannedClause(ReorderHead, b, p.plan)
          /\ planOrders = p.orders
    /\ translated = <<>>
    /\ relations = ReorderRelations
    /\ ioRelations = {}
    /\ pc = "translateClause"
    /\ normalisations = NoCache
    /\ countUnnamed = 0
    /\ changed = FALSE
    /\ lastChanged = FALSE
    /\ before = NoProgram
    /\ canonical = <<>>
    /\ runs = 0
    /\ firstResult = NoProgram
    /\ left = NoClause
    /\ right = NoClause
    /\ normLeft = NoNorm
    /\ normRight = NoNorm
    /\ equivalent = FALSE
    /\ clauseIdx = 0
    /\ replacedClauses = <<>>
    /\ atoms = <<>>
    /\ bindingStore = {}
    /\ newOrder = <<>>
    /\ ParserIdle
    /\ SearchIdle
    /\ given = Program

lowerFrame == <<relations, clauses, ioRelations, normalisations, countUnnamed,
                changed, lastChanged, before, canonical, runs, firstResult,
                pairVars, reorderVars, parserVars, searchVars, given>>

\* translateClause, lines 68-71: a reordered clause is translated in place
\* of the clause, by a call of translateClause on it.  A null dereference
\* in getOrderingAfterSIPS leaves the behaviour undefined.
TranslateClause ==
    /\ pc = "translateClause"
    /\ IF ~hasExecutionPlan(translating) /\ ~getOrderingAfterSIPS(sips, translating).defined
       THEN pc' = "undefined" /\ UNCHANGED translating
       ELSE \E reorderedClause \in {getReorderedClause(translating, planOrders, version, sips)} :
               IF reorderedClause # nullptr
               THEN translating' = reorderedClause /\ UNCHANGED pc
               ELSE pc' = "translateBody" /\ UNCHANGED translating
    /\ UNCHANGED <<version, planOrders, translated, lowerFrame>>

\* translateClause from line 73 on: the body atoms are nested in the order
\* of the body (createValueIndex, lines 464-471)
TranslateBody ==
    /\ pc = "translateBody"
    /\ translated' = getBodyAtoms(translating)
    /\ pc' = "done"
    /\ UNCHANGED <<version, planOrders, translating, lowerFrame>>

NextLower ==
    \/ TranslateClause
    \/ TranslateBody

SpecLower == InitLower /\ [][NextLower]_vars

-----------------------------------------------------------------------------
(* ParserDriver.cpp: the add functions the grammar actions call            *)

\* AstDirective(type, name, srcLoc)
AstDirective(type, name, loc) == [type |-> type, name |-> name, loc |-> loc]

\* a relation, type, lattice or functor declaration
Declaration(kind, name, loc) == [kind |-> kind, name |-> name, loc |-> loc]

\* Diagnostic(ERROR, DiagnosticMessage(message + name, loc),
\*            {DiagnosticMessage("Previous definition", previous)})
Diagnostic(message, name, loc, previous) ==
    [type |-> "ERROR",
     primary |-> [message |-> message, name |-> name, loc |-> loc],
     additional |-> <<[message |-> "Previous definition", loc |-> previous]>>]

\* getIf(container, pred): the first element satisfying pred, or nullptr
getIf(container, pred(_)) ==
    LET hits == SelectSeq(container, pred)
    IN IF hits = <<>> THEN nullptr ELSE hits[1]

\* program->getRelations(), getTypes(), getLattices(), getFunctorDeclarations()
getDeclarations(tu, kind) == SelectSeq(tu.declarations, LAMBDA d : d.kind = kind)

\* adds the directive whatever the program holds
addDirectiveUnchecked(tu, directive) ==
    [tu EXCEPT !.directives = Append(@, directive)]

\* addDirective, lines 146-175, on tu = [directives, declarations, diagnostics]
addDirective(tu, directive) ==
    LET cur == getIf(tu.directives,
                     LAMBDA c : c.name = directive.name /\ c.type = directive.type)
    IN IF directive.type \in {"printsize", "limitsize"} /\ cur # nullptr
       THEN [tu EXCEPT !.diagnostics = Append(@,
                Diagnostic("Redefinition of " \o directive.type \o " directives for relation",
                           directive.name, directive.loc, cur.loc))]
       ELSE [tu EXCEPT !.directives = Append(@, directive)]

\* addIoFromDeprecatedTag, lines 201-213: rel = [name, loc, qualifiers]
addIoFromDeprecatedTag(tu, rel) ==
    LET tuInput  == IF "input" \in rel.qualifiers
                    THEN addDirective(tu, AstDirective("input", rel.name, rel.loc))
                    ELSE tu
        tuOutput == IF "output" \in rel.qualifiers
                    THEN addDirective(tuInput, AstDirective("output", rel.name, rel.loc))
                    ELSE tuInput
    IN IF "printsize" \in rel.qualifiers
       THEN addDirective(tuOutput, AstDirective("printsize", rel.name, rel.loc))
       ELSE tuOutput

\* addFunctorDeclaration, lines 104-117
addFunctorDeclaration(tu, f) ==
    LET existingFunctorDecl == getIf(getDeclarations(tu, "functor"),
                                     LAMBDA current : current.name = f.name)
    IN IF existingFunctorDecl # nullptr
       THEN [tu EXCEPT !.diagnostics = Append(@,
                Diagnostic("Redefinition of functor", f.name, f.loc,
                           existingFunctorDecl.loc))]
       ELSE [tu EXCEPT !.declarations = Append(@, f)]

\* addLattice, lines 119-131
addLattice(tu, lattice) ==
    LET existingLattice == getIf(getDeclarations(tu, "lattice"),
                                 LAMBDA current : current.name = lattice.name)
    IN IF existingLattice # nullptr
       THEN [tu EXCEPT !.diagnostics = Append(@,
                Diagnostic("Redefinition of lattice", lattice.name, lattice.loc,
                           existingLattice.loc))]
       ELSE [tu EXCEPT !.declarations = Append(@, lattice)]

\* adds the relation whatever the program holds
addRelationUnchecked(tu, r) ==
    [tu EXCEPT !.declarations = Append(@, r)]

\* addRelation, lines 133-144
addRelation(tu, r) ==
    LET prev == getIf(getDeclarations(tu, "relation"),
                      LAMBDA current : current.name = r.name)
    IN IF prev # nullptr
       THEN [tu EXCEPT !.diagnostics = Append(@,
                Diagnostic("Redefinition of relation", r.name, r.loc, prev.loc))]
       ELSE [tu EXCEPT !.declarations = Append(@, r)]

\* addType, lines 177-189
addType(tu, type) ==
    LET existingType == getIf(getDeclarations(tu, "type"),
                              LAMBDA current : current.name = type.name)
    IN IF existingType # nullptr
       THEN [tu EXCEPT !.diagnostics = Append(@,
                Diagnostic("Redefinition of type", type.name, type.loc,
                           existingType.loc))]
       ELSE [tu EXCEPT !.declarations = Append(@, type)]

\* ---- inputs ----

MaxCalls == 3

ParserNames == {"a", "b"}

DirectiveTypes == {"input", "output", "printsize", "limitsize"}

Qualifiers == {"input", "output", "printsize"}

DeclarationKinds == {"relation", "type", "lattice", "functor"}

InitParser ==
    /\ pc = "parse"
    /\ clauses = <<>>
    /\ relations = <<>>
    /\ ioRelations = {}
    /\ left = NoClause
    /\ right = NoClause
    /\ InitCommon

parserFrame == <<relations, clauses, ioRelations, normalisations, countUnnamed,
                 pc, changed, lastChanged, before, canonical, runs, firstResult,
                 pairVars, reorderVars, lowerVars, searchVars, given>>

parserTU == [directives |-> directives, declarations |-> declarations,
             diagnostics |-> diagnostics]

parserStep(tu, call) ==
    /\ directives' = tu.directives
    /\ declarations' = tu.declarations
    /\ diagnostics' = tu.diagnostics
    /\ lastCall' = call
    /\ srcLoc' = srcLoc + 1
    /\ UNCHANGED parserFrame

AddDirective ==
    /\ srcLoc <= MaxCalls
    /\ \E type \in DirectiveTypes, name \in ParserNames :
          parserStep(addDirective(parserTU, AstDirective(type, name, srcLoc)),
                     [op |-> "addDirective", type |-> type, name |-> name, loc |-> srcLoc])

AddIoFromDeprecatedTag ==
    /\ srcLoc <= MaxCalls
    /\ \E name \in ParserNames, qualifiers \in SUBSET Qualifiers :
          parserStep(addIoFromDeprecatedTag(parserTU,
                        [name |-> name, loc |-> srcLoc, qualifiers |-> qualifiers]),
                     [op |-> "addIoFromDeprecatedTag", name |-> name, loc |-> srcLoc,
                      qualifiers |-> qualifiers])

AddRelation ==
    /\ srcLoc <= MaxCalls
    /\ \E name \in ParserNames :
          parserStep(addRelation(parserTU, Declaration("relation", name, srcLoc)),
                     [op |-> "addRelation", kind |-> "relation", name |-> name, loc |-> srcLoc])

AddType ==
    /\ srcLoc <= MaxCalls
    /\ \E name \in ParserNames :
          parserStep(addType(parserTU, Declaration("type", name, srcLoc)),
                     [op |-> "addType", kind |-> "type", name |-> name, loc |-> srcLoc])

AddLattice ==
    /\ srcLoc <= MaxCalls
    /\ \E name \in ParserNames :
          parserStep(addLattice(parserTU, Declaration("lattice", name, srcLoc)),
                     [op |-> "addLattice", kind |-> "lattice", name |-> name, loc |-> srcLoc])

AddFunctorDeclaration ==
    /\ srcLoc <= MaxCalls
    /\ \E name \in ParserNames :
          parserStep(addFunctorDeclaration(parserTU, Declaration("functor", name, srcLoc)),
                     [op |-> "addFunctorDeclaration", kind |-> "functor", name |-> name,
                      loc |-> srcLoc])

NextParser ==
    \/ AddDirective
    \/ AddIoFromDeprecatedTag
    \/ AddRelation
    \/ AddType
    \/ AddLattice
    \/ AddFunctorDeclaration

SpecParser == InitParser /\ [][NextParser]_vars

-----------------------------------------------------------------------------
(* MinimiseProgram.cpp: the search loop of existsValidPermutation, one     *)
(* iteration at a time, on any candidate matrix (lines 58-150)             *)

\* ---- inputs ----

MaxElements == 3

\* the elements of head and body atoms take the same numbers of parameters:
\* a body atom has its scope among the concrete and the lattice parameters
SearchHeads == {Atom("A", <<Var("S"), Var("X"), Var("Y")>>, <<Var("L")>>),
                Atom("A", <<Var("S"), Var("Y"), Var("X")>>, <<Var("L")>>)}

SearchLiterals == {Atom("B", <<Var("X"), Var("Y")>>, <<>>),
                   Atom("B", <<Var("Y"), Var("X")>>, <<>>)}

\* clauses of n elements, each with three concrete parameters and one
\* lattice parameter
SearchClauses(n) ==
    {Clause(h, b) : h \in SearchHeads, b \in SeqOfLen(SearchLiterals, n - 1)}

\* the n-by-n matrices of zeros and ones
Matrices(n) == [1..n -> [1..n -> {0, 1}]]

\* the search on the clauses left and right and a matrix of Matrices(n)
InitSearchOn(lefts, rights, n) ==
    /\ left \in lefts
    /\ right \in rights
    /\ candidateMatrix \in Matrices(n)
    /\ normLeft = NormalisedClause(left, 0)
    /\ normRight = NormalisedClause(right, 0)
    /\ searchState = <<>>
    /\ submitted = {}
    /\ pc = "existsValidPermutation"
    /\ relations = <<"A", "B">>
    /\ clauses = <<left, right>>
    /\ ioRelations = {}
    /\ normalisations = NoCache
    /\ countUnnamed = 0
    /\ changed = FALSE
    /\ lastChanged = FALSE
    /\ before = NoProgram
    /\ canonical = <<>>
    /\ runs = 0
    /\ firstResult = NoProgram
    /\ equivalent = FALSE
    /\ sips = "all-bound"
    /\ clauseIdx = 0
    /\ replacedClauses = <<>>
    /\ atoms = <<>>
    /\ bindingStore = {}
    /\ newOrder = <<>>
    /\ LowerIdle
    /\ ParserIdle
    /\ given = Program

InitSearch ==
    \E n \in 1..MaxElements :
        InitSearchOn({Clause(Atom("A", <<Var("S"), Var("X"), Var("Y")>>, <<Var("L")>>), b) :
                         b \in SeqOfLen(SearchLiterals, n - 1)},
                     SearchClauses(n), n)

\* one left clause for each number of elements, with every right clause
InitSearchFair ==
    \E n \in 1..MaxElements :
        LET body == [k \in 1..(n - 1) |->
                        Atom("B", IF k = 1 THEN <<Var("X"), Var("Y")>>
                                           ELSE <<Var("Y"), Var("X")>>, <<>>)]
        IN InitSearchOn({Clause(Atom("A", <<Var("S"), Var("X"), Var("Y")>>, <<Var("L")>>), body)},
                        SearchClauses(n), n)

searchFrame == <<relations, clauses, ioRelations, normalisations, countUnnamed,
                 changed, lastChanged, before, canonical, runs, firstResult,
                 pairVars, reorderVars, lowerVars, parserVars, candidateMatrix,
                 given>>

\* lines 60-80: validMoves, the locals of the search and the first push
EnterSearch ==
    /\ pc = "existsValidPermutation"
    /\ searchState' = searchStart(validMovesOf(candidateMatrix))
    /\ pc' = "search"
    /\ UNCHANGED <<submitted, searchFrame>>

\* one iteration of the while loop (lines 81-146), or its exit (line 149);
\* a complete currentPermutation is handed to isValidPermutation (line 84)
SearchStep ==
    /\ pc = "search"
    /\ \E st \in {searchStep(searchState, normLeft, normRight,
                             validMovesOf(candidateMatrix))} :
          /\ searchState' = st
          /\ pc' = IF st.result = "searching" THEN "search" ELSE "returned"
    /\ submitted' = IF /\ searchState.todoStack # <<>>
                       /\ searchState.currentIdx = Len(candidateMatrix)
                    THEN submitted \cup {searchState.currentPermutation}
                    ELSE submitted
    /\ UNCHANGED searchFrame

NextSearch ==
    \/ EnterSearch
    \/ SearchStep

SpecSearch == InitSearch /\ [][NextSearch]_vars

\* the loop runs on: no iteration that can be taken is put off for ever
SpecSearchFair == InitSearchFair /\ [][NextSearch]_vars /\ WF_vars(NextSearch)

-----------------------------------------------------------------------------
(* Properties *)

\* number of occurrences of x in the sequence s
Count(s, x) == Cardinality({i \in 1..Len(s) : s[i] = x})

\* the same clauses, each as often, in any order
SameClauses(s, t) ==
    /\ Len(s) = Len(t)
    /\ \A x \in Range(s) : Count(s, x) = Count(t, x)

\* the equivalence test on left and right has been carried out
Tested ==
    /\ left # NoClause
    /\ pc \notin {"normaliseLeft", "normaliseRight", "areBijectivelyEquivalent"}

\* the normalisations of the clauses of a program
normalisationsOf(cls) == runNormalisation(cls, 0, <<>>).norms

unhandled(c) == ~NormalisedClause(c, 0).fullyNormalised

\* the arguments of a list of literals in textual order
RECURSIVE argumentsOf(_)
argumentsOf(lits) ==
    IF lits = <<>> THEN <<>>
    ELSE Head(lits).conc \o Head(lits).lat \o argumentsOf(Tail(lits))

\* the named variables among args in order of first occurrence
RECURSIVE firstOccurrences(_, _)
firstOccurrences(args, acc) ==
    IF args = <<>> THEN acc
    ELSE firstOccurrences(Tail(args),
            IF Head(args).kind = "var" /\ Head(args).name \notin Range(acc)
            THEN Append(acc, Head(args).name) ELSE acc)

variablesOf(c) == Range(firstOccurrences(argumentsOf(<<c.head>> \o c.body), <<>>))

\* c with its variables named by the order of their first occurrence
canonicalVariables(c) ==
    LET order == firstOccurrences(argumentsOf(<<c.head>> \o c.body), <<>>)
    IN renameVars(c, [v \in Range(order) |->
                        "v" \o ToString(CHOOSE i \in 1..Len(order) : order[i] = v)])

\* c and d are identical up to a bijective renaming of the variables and a
\* permutation of the body literals
AlphaPermEquivalent(c, d) ==
    /\ Len(c.body) = Len(d.body)
    /\ \E p \in Permutations1(Len(c.body)) :
          canonicalVariables(permuteBody(c, p)) = canonicalVariables(d)

\* C1: two fully normalisable clauses that are identical up to a bijective
\* renaming of variables and a permutation of their body literals are
\* reported bijectively equivalent.
C1_RenamedPermutedEquivalent ==
    (/\ Tested
     /\ normLeft.fullyNormalised /\ normRight.fullyNormalised
     /\ AlphaPermEquivalent(left, right))
    => equivalent

\* a pair with renamed variables and a reordered body was tested and found
\* equivalent
C1_Witness ==
    /\ Tested /\ equivalent
    /\ AlphaPermEquivalent(left, right)
    /\ left.head # right.head
    /\ Len(left.body) >= 2
    /\ \E n \in 1..Len(left.body) :
          <<left.body[n].kind, left.body[n].name>> #
          <<right.body[n].kind, right.body[n].name>>

\* clause c without the literals that equal a literal at an earlier position
keepFirstOccurrences(c) ==
    LET keep == SelectSeq([i \in 1..Len(c.body) |-> i],
                    LAMBDA i : \A j \in 1..(i - 1) : c.body[j] # c.body[i])
    IN Clause(c.head, [n \in 1..Len(keep) |-> c.body[keep[n]]])

\* C2: reduceClauseBodies replaces every clause by the clause with each
\* literal removed that equals a literal at an earlier position (the first
\* occurrence is kept), so that afterwards no body holds two equal literals;
\* heads and the relative order of the kept literals are unchanged.
C2_ReduceClauseBodiesKeepsFirstOccurrences ==
    pc = "removeRedundantClauses" =>
        /\ SameClauses(clauses, [n \in 1..Len(before.clauses) |->
                                    keepFirstOccurrences(before.clauses[n])])
        /\ \A n \in 1..Len(clauses) : \A i, j \in 1..Len(clauses[n].body) :
              clauses[n].body[i] = clauses[n].body[j] => i = j

\* C3: a second run of transform leaves the program the first run produced.
C3_TransformIdempotent ==
    (pc = "done" /\ runs = 2) => Program = firstResult

\* C4: after reduceLocallyEquivalentClauses no two remaining clauses of one
\* relation are bijectively equivalent, every deleted clause is bijectively
\* equivalent to a remaining clause of its relation, and nothing else
\* changes.
C4_LocallyEquivalentClausesReduced ==
    pc = "reduceSingletonRelations" =>
        LET pre      == before.clauses
            preNorms == normalisationsOf(before.clauses)
            norms    == normalisationsOf(clauses)
        IN /\ \A i, j \in 1..Len(clauses) :
                 (i # j /\ clauses[i].head.name = clauses[j].head.name)
                 => ~areBijectivelyEquivalent(norms[i], norms[j])
           /\ \A i \in 1..Len(pre) :
                 Count(clauses, pre[i]) < Count(pre, pre[i])
                 => \E j \in 1..Len(clauses) :
                       /\ clauses[j].head.name = pre[i].head.name
                       /\ areBijectivelyEquivalent(norms[j], preNorms[i])
           /\ \A x \in Range(clauses) : Count(clauses, x) <= Count(pre, x)
           /\ lastChanged = (Len(clauses) < Len(pre))
           /\ relations = before.relations

\* of two different but equivalent clauses of one relation the second was
\* deleted
C4_Witness ==
    /\ pc = "reduceSingletonRelations"
    /\ Len(before.clauses) = 2 /\ Len(clauses) = 1
    /\ before.clauses[1] # before.clauses[2]
    /\ clauses[1] = before.clauses[1]

\* C5: removeRedundantClauses deletes exactly the clauses whose head equals
\* one of their own body literals, keeps every other clause, and returns
\* true iff it deleted a clause.
C5_RedundantClausesRemoved ==
    pc = "reduceLocallyEquivalentClauses" =>
        /\ clauses = SelectSeq(before.clauses,
                        LAMBDA c : c.head \notin Range(c.body))
        /\ lastChanged = (Len(clauses) < Len(before.clauses))
        /\ relations = before.relations

\* a clause with its head in its body was deleted next to a clause that
\* names its head relation in the body with other arguments or negated
C5_Witness ==
    /\ pc = "reduceLocallyEquivalentClauses"
    /\ lastChanged
    /\ Len(clauses) < Len(before.clauses)
    /\ \E n \in 1..Len(clauses) : \E m \in 1..Len(clauses[n].body) :
          clauses[n].body[m].name = clauses[n].head.name

\* the relations of program prog that reduceSingletonRelations compares:
\* not I/O, exactly one clause
isSingleton(prog, r) ==
    r \notin ioRelations /\ Len(getClauses(prog.clauses, r)) = 1

\* the only clauses of the relations at positions m and k of prog are
\* bijectively equivalent
singletonsEquivalent(prog, m, k) ==
    LET norms == normalisationsOf(prog.clauses)
    IN /\ isSingleton(prog, prog.relations[m])
       /\ isSingleton(prog, prog.relations[k])
       /\ areBijectivelyEquivalent(
             norms[getClauses(prog.clauses, prog.relations[m])[1]],
             norms[getClauses(prog.clauses, prog.relations[k])[1]])

\* positions of the relations of prog with an equivalent earlier relation
foldedPositions(prog) ==
    {k \in 1..Len(prog.relations) :
        \E m \in 1..(k - 1) : singletonsEquivalent(prog, m, k)}

isAtom(lit) == lit.kind \in {"atom", "neg"}

\* C6: after reduceSingletonRelations, of the non-I/O relations with exactly
\* one clause whose clauses are bijectively equivalent only the first in
\* relation order remains; every atom that named a removed relation names
\* its canonical relation, which is still declared and not itself removed.
C6_SingletonRelationsFolded ==
    pc = "return" =>
        LET folded == foldedPositions(before)
            gone   == {before.relations[k] : k \in folded}
            kept   == SelectSeq(before.clauses, LAMBDA c : c.head.name \notin gone)
        IN /\ relations = SelectSeq(before.relations, LAMBDA r : r \notin gone)
           /\ DOMAIN canonical = gone
           /\ \A k \in folded :
                 \E m \in 1..(k - 1) :
                    /\ canonical[before.relations[k]] = before.relations[m]
                    /\ singletonsEquivalent(before, m, k)
                    /\ m \notin folded
           /\ \A r \in gone : canonical[r] \in Range(relations) \ gone
           /\ Len(clauses) = Len(kept)
           /\ \A n \in 1..Len(clauses) :
                 /\ clauses[n].head = kept[n].head
                 /\ Len(clauses[n].body) = Len(kept[n].body)
                 /\ \A m \in 1..Len(clauses[n].body) :
                       clauses[n].body[m] =
                          IF isAtom(kept[n].body[m]) /\ kept[n].body[m].name \in gone
                          THEN [kept[n].body[m] EXCEPT !.name = canonical[@]]
                          ELSE kept[n].body[m]
           /\ \A n \in 1..Len(clauses) : \A m \in 1..Len(clauses[n].body) :
                 isAtom(clauses[n].body[m])
                 => clauses[n].body[m].name \in Range(relations)
           /\ lastChanged = (gone # {})

\* a relation was folded into an earlier one and an atom that named it was
\* rewritten
C6_Witness ==
    /\ pc = "return"
    /\ lastChanged
    /\ Len(relations) < Len(before.relations)
    /\ \E n \in 1..Len(before.clauses) : \E m \in 1..Len(before.clauses[n].body) :
          /\ isAtom(before.clauses[n].body[m])
          /\ before.clauses[n].body[m].name \in DOMAIN canonical
          /\ before.clauses[n].head.name \notin DOMAIN canonical

\* C7: a relation the I/O analysis reports is not removed, not renamed and
\* not chosen as canonical replacement by reduceSingletonRelations, also
\* when its only clause is bijectively equivalent to the only clause of
\* another relation; the atoms that name it are unchanged.
C7_IORelationsUntouched ==
    pc = "return" =>
        \A r \in ioRelations \cap Range(before.relations) :
            LET kept == SelectSeq(before.clauses,
                                  LAMBDA c : c.head.name \in Range(relations))
            IN /\ r \in Range(relations)
               /\ r \notin DOMAIN canonical
               /\ \A q \in DOMAIN canonical : canonical[q] # r
               /\ Len(kept) = Len(clauses)
               /\ \A n \in 1..Len(clauses) :
                     /\ (kept[n].head.name = r) <=> (clauses[n].head.name = r)
                     /\ kept[n].head.name = r => clauses[n].head = kept[n].head
                     /\ Len(clauses[n].body) = Len(kept[n].body)
                     /\ \A m \in 1..Len(clauses[n].body) :
                           (isAtom(kept[n].body[m]) /\ kept[n].body[m].name = r)
                           <=> (isAtom(clauses[n].body[m])
                                /\ clauses[n].body[m].name = r)

\* the only clause of an I/O relation is equivalent to the only clause of
\* another relation; both relations are still declared and an atom names
\* the I/O relation
C7_Witness ==
    /\ pc = "return"
    /\ \E k \in 1..Len(before.relations) : \E m \in 1..Len(before.relations) :
          /\ before.relations[k] \in ioRelations
          /\ m # k
          /\ before.relations[m] \notin ioRelations
          /\ Len(getClauses(before.clauses, before.relations[k])) = 1
          /\ Len(getClauses(before.clauses, before.relations[m])) = 1
          /\ LET norms == normalisationsOf(before.clauses)
             IN areBijectivelyEquivalent(
                   norms[getClauses(before.clauses, before.relations[m])[1]],
                   norms[getClauses(before.clauses, before.relations[k])[1]])
          /\ before.relations[k] \in Range(relations)
          /\ before.relations[m] \in Range(relations)
          /\ \E n \in 1..Len(clauses) : \E i \in 1..Len(clauses[n].body) :
                clauses[n].body[i].name = before.relations[k]

\* C8: with a clause that is not fully normalised in either position
\* areBijectivelyEquivalent returns false; reduceLocallyEquivalentClauses
\* does not delete such a clause and reduceSingletonRelations does not fold
\* its relation.
C8_UnhandledNeverEquivalent ==
    Tested =>
        /\ (~normLeft.fullyNormalised \/ ~normRight.fullyNormalised) => ~equivalent
        /\ pc = "reduceSingletonRelations" =>
              \A n \in 1..Len(before.clauses) :
                 unhandled(before.clauses[n])
                 => Count(clauses, before.clauses[n])
                      = Count(before.clauses, before.clauses[n])
        /\ pc = "return" =>
              \A n \in 1..Len(before.clauses) :
                 unhandled(before.clauses[n])
                 => /\ before.clauses[n].head.name \in Range(relations)
                    /\ before.clauses[n].head.name \notin DOMAIN canonical
                    /\ \A q \in DOMAIN canonical :
                          canonical[q] # before.clauses[n].head.name
                    /\ Count(clauses, before.clauses[n])
                         = Count(before.clauses, before.clauses[n])

\* two relations whose only clauses are the same clause with an unhandled
\* literal or argument went through reduceSingletonRelations
C8_Witness ==
    /\ Tested
    /\ pc = "return"
    /\ ~normLeft.fullyNormalised /\ ~normRight.fullyNormalised
    /\ ~equivalent
    /\ right = renameHead(left, right.head.name)
    /\ left.head.name # right.head.name
    /\ Len(relations) = Len(before.relations)
    /\ Range(clauses) = {left, right}

\* the permutation the search accepted for normLeft and normRight
\* (element i of normLeft corresponds to element acceptedPermutation[i] of
\* normRight; both counted from 1)
acceptedPermutation ==
    LET p == searchPermutation(normLeft, normRight,
                permutationMatrixOf(normLeft, normRight)).currentPermutation
    IN [i \in 1..Len(p) |-> p[i] + 1]

\* parameter lists a (of normLeft) and b (of normRight) hold the same
\* constants at the same indices
constantsMatch(a, b) ==
    /\ Len(a) = Len(b)
    /\ \A k \in 1..Len(a) :
          (a[k] \in normLeft.constants \/ b[k] \in normRight.constants)
          => a[k] = b[k]

\* under the correspondence perm of the elements
constantsMatchUnder(perm) ==
    \A i \in 1..Len(normLeft.clauseElements) :
       /\ constantsMatch(normLeft.clauseElements[i].concreteParams,
                         normRight.clauseElements[perm[i]].concreteParams)
       /\ constantsMatch(normLeft.clauseElements[i].latticeParams,
                         normRight.clauseElements[perm[i]].latticeParams)

Fact(c1, c2, c3) == Clause(Atom("A", <<Num(c1), Num(c2)>>, <<Num(c3)>>), <<>>)

\* C9: areBijectivelyEquivalent returns false when the constant sets of the
\* two clauses differ; when it returns true every constant parameter is
\* matched with the identical constant at the same index of the
\* corresponding element, concrete against concrete and lattice against
\* lattice; the facts A(0,0;0), A(0,0;1), A(0,1;0) are pairwise
\* non-equivalent and two copies of A(0,0;0) are equivalent.
C9_ConstantsMatchTextually ==
    Tested =>
        /\ normLeft.constants # normRight.constants => ~equivalent
        /\ equivalent => constantsMatchUnder(acceptedPermutation)
        /\ \A c, d \in {Fact("0", "0", "0"), Fact("0", "0", "1"), Fact("0", "1", "0")} :
              (left = c /\ right = d) => (equivalent <=> c = d)

\* two facts with the same set of constants at different positions were
\* tested
C9_Witness ==
    /\ Tested
    /\ left = Fact("0", "0", "1") /\ right = Fact("0", "1", "0")
    /\ normLeft.constants = normRight.constants
    /\ ~equivalent

\* the variables among the lattice arguments of literal lit
latticeVariable(lit) ==
    IF Len(lit.lat) = 1 /\ lit.lat[1].kind = "var" THEN lit.lat[1].name ELSE ""

\* d is c except that body atom n of d has another variable as its lattice
\* argument, where c has the lattice variable that body atom m of c has too
splitAt(c, d, n, m) ==
    /\ n # m
    /\ c.body[n].kind = "atom" /\ c.body[m].kind = "atom"
    /\ latticeVariable(c.body[n]) # ""
    /\ latticeVariable(c.body[n]) = latticeVariable(c.body[m])
    /\ latticeVariable(d.body[n]) \notin {"", latticeVariable(c.body[n])}
    /\ d = replaceLattice(c, n, latticeVariable(d.body[n]))

LatticeSplit(c, d) ==
    /\ Len(c.body) = Len(d.body)
    /\ \E n, m \in 1..Len(c.body) : splitAt(c, d, n, m)

\* the same, and the other variable of d occurs nowhere in c
FreshLatticeSplit(c, d) ==
    /\ Len(c.body) = Len(d.body)
    /\ \E n, m \in 1..Len(c.body) :
          /\ splitAt(c, d, n, m)
          /\ latticeVariable(d.body[n]) \notin variablesOf(c)

\* both clauses of the tested pair are in the program, up to repeated
\* literals
BothRetained ==
    /\ Len(clauses) = 2
    /\ \A c \in {left, right} :
          \E n \in 1..Len(clauses) :
             /\ clauses[n].head = c.head
             /\ Range(clauses[n].body) = Range(c.body)

\* C10 as stated: two clauses that differ only in that one uses one
\* variable in the lattice positions of two body atoms where the other uses
\* two distinct variables are not bijectively equivalent, and minimisation
\* retains both.
C10_LatticeSplitNotEquivalent ==
    (Tested /\ (LatticeSplit(left, right) \/ LatticeSplit(right, left)))
    => (~equivalent /\ BothRetained)

\* C10, amended: the same when the second of the two distinct variables
\* occurs nowhere else in its clause.
C10_FreshLatticeSplitNotEquivalent ==
    (Tested /\ (FreshLatticeSplit(left, right) \/ FreshLatticeSplit(right, left)))
    => (~equivalent /\ BothRetained)

\* such a pair went through the whole transformer
C10_Witness ==
    /\ Tested /\ pc = "done"
    /\ FreshLatticeSplit(left, right)
    /\ ~equivalent
    /\ BothRetained
    /\ Len(left.body) = 2

\* C11: the equivalence test is symmetric: with the two normalised clauses
\* exchanged areBijectivelyEquivalent returns the same value.
C11_EquivalenceSymmetric ==
    pc = "reduceClauseBodies" /\ left # NoClause =>
        (equivalent <=> areBijectivelyEquivalent(normRight, normLeft))

\* two different clauses were found equivalent in both orders
C11_Witness ==
    /\ pc = "reduceClauseBodies" /\ left # NoClause
    /\ equivalent
    /\ left.body # right.body
    /\ Len(left.body) >= 2
    /\ areBijectivelyEquivalent(normRight, normLeft)

\* the aggregator at the right of the "=" constraint of c
sumAggregator(c) ==
    c.body[CHOOSE n \in 1..Len(c.body) :
              c.body[n].kind = "bc" /\ c.body[n].name = "="].conc[2]

\* the aggregator nested in aggregator a
nestedAggregator(a) ==
    a.body[CHOOSE n \in 1..Len(a.body) : a.body[n].kind = "bc"].conc[2]

\* the lattice argument of the only atom of relation A among lits
latticeOfA(lits) ==
    lits[CHOOSE n \in 1..Len(lits) :
            lits[n].kind = "atom" /\ lits[n].name = "A"].lat[1]

\* the atom of A inside the nested aggregator shares its lattice variable
\* with the atom of A of the outer body
sharesLattice(c) ==
    latticeOfA(nestedAggregator(sumAggregator(c)).body) = latticeOfA(c.body)

\* C12: two clauses with aggregators that differ only in variable names
\* (aggregator-local ones included), the order of the literals inside the
\* aggregator bodies and the order of the outer body are equivalent and the
\* minimisation deletes the second; if they differ in an aggregate operator
\* or in whether the atom in the nested aggregator shares the lattice
\* variable of the outer body, they are not equivalent and both are kept.
C12_AggregatorsStructural ==
    Tested =>
        /\ equivalent <=>
              /\ sumAggregator(left).name = sumAggregator(right).name
              /\ sharesLattice(left) <=> sharesLattice(right)
        /\ pc \in {"reduceSingletonRelations", "return", "done"} =>
              clauses = (IF equivalent THEN <<left>> ELSE <<left, right>>)
        /\ pc \in {"removeRedundantClauses", "reduceLocallyEquivalentClauses"} =>
              clauses = <<left, right>>

\* the first two clauses of the test: renamed, aggregator bodies and outer
\* body reordered, found equivalent, the second deleted
C12_Witness ==
    /\ pc = "done" /\ equivalent
    /\ left = AggrBase("sum", "l")
    /\ right.head = Atom("D", <<Var("V")>>, <<>>)
    /\ right.body[2] = Atom("A", <<Var("W")>>, <<Var("k")>>)
    /\ nestedAggregator(sumAggregator(right)).body[1].name = "C"
    /\ clauses = <<left>>

\* C13: minimisation is size-monotone: no reduction of transform leaves more
\* clauses or more relations than it found, so that the program a run of
\* transform returns has no more clauses and no more relations than the
\* program the run was applied to (compared directly for the second run).
C13_SizeMonotone ==
    /\ before # NoProgram =>
          /\ Len(clauses) <= Len(before.clauses)
          /\ Len(relations) <= Len(before.relations)
    /\ (pc = "done" /\ runs = 2) =>
          /\ Len(clauses) <= Len(firstResult.clauses)
          /\ Len(relations) <= Len(firstResult.relations)

\* a run has removed a relation together with its clause
C13_Witness ==
    /\ pc = "done" /\ changed
    /\ Len(relations) < Len(before.relations)
    /\ Len(clauses) < Len(before.clauses)
    /\ Len(clauses) >= 2

\* the relations that are still declared have the same tuples in old and
\* new, and each relation that was removed had the tuples of its canonical
\* relation
sameMeaning(old, new) ==
    /\ \A r \in Range(relations) : new[r] = old[r]
    /\ \A r \in Range(before.relations) \ Range(relations) :
          /\ r \in DOMAIN canonical
          /\ canonical[r] \in Range(relations)
          /\ old[r] = old[canonical[r]]

transformStep ==
    /\ pc = "reduceClauseBodies" =>
          pc' = "removeRedundantClauses" /\ changed' = lastChanged'
    /\ pc = "removeRedundantClauses" =>
          /\ pc' = "reduceLocallyEquivalentClauses"
          /\ changed' = (changed \/ lastChanged')
    /\ pc = "reduceLocallyEquivalentClauses" =>
          /\ pc' = "reduceSingletonRelations"
          /\ changed' = (changed \/ lastChanged')
    /\ pc = "reduceSingletonRelations" =>
          pc' = "return" /\ changed' = (changed \/ lastChanged')
    /\ pc = "return" => pc' = "done" /\ changed' = changed
    /\ pc \in {"reduceClauseBodies", "removeRedundantClauses",
               "reduceLocallyEquivalentClauses"}
       /\ (changed' \/ Program' # Program) => ~normalisations'.valid
    /\ pc \in {"reduceLocallyEquivalentClauses", "reduceSingletonRelations"} =>
          getAnalysis(TU).normalisations.norms = normalisationsOf(clauses)

\* C15: a run of transform performs reduceClauseBodies,
\* removeRedundantClauses, reduceLocallyEquivalentClauses and
\* reduceSingletonRelations in this order, once each; after each of the
\* first three, if the program has been changed the cached analyses are
\* invalid, so that the normalisations the last two reductions read are
\* those of the clauses of the program at that time; the value returned is
\* true iff one of the reductions returned true.
C15_OrderedReductionsFreshAnalyses == [][transformStep]_vars

\* the third reduction deleted a clause with the cache filled, and the
\* cache was invalidated before the fourth
C15_Witness ==
    /\ pc = "reduceSingletonRelations"
    /\ lastChanged /\ changed
    /\ Len(clauses) < Len(before.clauses)
    /\ Len(clauses) >= 2
    /\ ~normalisations.valid

\* ---- C16 ----

\* the program is the scenario clause h(X) :- p(X,Y), q(X), r(Y). alone,
\* reordered with the policy all-bound; the body holds no constraint, so no
\* variable is bound before the body
scenarioAllBound ==
    /\ sips = "all-bound"
    /\ before.clauses = <<ScenarioClause>>
    /\ BindingStore(ScenarioClause) = {}

isPrefix(s, t) == Len(s) <= Len(t) /\ \A n \in 1..Len(s) : s[n] = t[n]

\* C16 (as amended): with the policy all-bound and no variable bound before
\* the body, the body p(X,Y), q(X), r(Y) keeps its order.  No atom has all
\* its arguments bound at the first choice, so the first atom that is not
\* null, p, is chosen; q and then r follow.  The ordering is 0, 1, 2, the
\* clause is left as it is and the transformer reports no change.
C16_AllBoundScenarioKeepsOrder ==
    scenarioAllBound =>
        /\ pc # "undefined"
        /\ pc = "getOrderingAfterSIPS" => isPrefix(newOrder, <<0, 1, 2>>)
        /\ pc = "done" => /\ newOrder = <<0, 1, 2>>
                          /\ clauses = <<ScenarioClause>>
                          /\ ~changed

C16_Witness ==
    /\ scenarioAllBound
    /\ pc = "done"
    /\ newOrder = <<0, 1, 2>>
    /\ clauses = <<ScenarioClause>>

\* C16 as stated: the body is reordered to q(X), p(X,Y), r(Y)
C16_AllBoundScenarioReordered ==
    scenarioAllBound /\ pc = "done" =>
        clauses = <<PlannedClause(ReorderHead,
                                  <<Atom("q", <<Var("X")>>, <<>>),
                                    Atom("p", <<Var("X"), Var("Y")>>, <<>>),
                                    Atom("r", <<Var("Y")>>, <<>>)>>, FALSE)>>

\* ---- C17 ----

\* the number of distinct variables of the atom that the store does not hold
numUnboundVariables(atom, store) ==
    Cardinality({v \in atomVariables(atom) : v \notin store})

\* the first remaining proposition if there is one, otherwise the earliest
\* remaining atom with the smallest number of distinct unbound variables
leastUnboundChoice(atomVec, store) ==
    LET live == {i \in 0..(Len(atomVec) - 1) : atomVec[i + 1] # nullptr}
        props == {i \in live : isProposition(atomVec[i + 1])}
        least == {i \in live : \A j \in live :
                     numUnboundVariables(atomVec[i + 1], store)
                        <= numUnboundVariables(atomVec[j + 1], store)}
        first(S) == CHOOSE i \in S : \A j \in S : i <= j
    IN IF props # {} THEN first(props) ELSE first(least)

\* C17: under the policy least-free-vars every choice of the greedy loop
\* takes the first remaining proposition if there is one, otherwise the
\* remaining atom with the fewest distinct unbound variables, the earliest
\* on ties.
C17_LeastFreeVarsTakesFewestUnbound ==
    [][sips = "least-free-vars" /\ pc = "getOrderingAfterSIPS" /\ newOrder' # newOrder
          => newOrder' = Append(newOrder, leastUnboundChoice(atoms, bindingStore))]_vars

\* ---- C18 ----

\* every atom of the body that is not a proposition has a concrete argument
concreteArityAtLeastOne(clause) ==
    \A n \in 1..Len(clause.body) :
        clause.body[n].kind = "atom" =>
            isProposition(clause.body[n]) \/ Len(clause.body[n].conc) >= 1

\* C18: for every policy name and every clause whose non-proposition atoms
\* have concrete arity at least 1, the policy never returns the index of a
\* consumed atom (no null pointer is dereferenced), the indices chosen so
\* far are exactly the consumed entries, each chosen once, and the loop has
\* made as many choices as the clause has body atoms when it is left: the
\* ordering returned is a permutation of the atom indices.
C18_OrderingIsPermutation ==
    (\A n \in 1..Len(before.clauses) : concreteArityAtLeastOne(before.clauses[n])) =>
        /\ pc # "undefined"
        /\ sips \in SipsNames
        /\ \A k \in 1..Len(newOrder) : newOrder[k] \in 0..(Len(atoms) - 1)
        /\ \A i \in 0..(Len(atoms) - 1) :
              Count(newOrder, i) = IF atoms[i + 1] = nullptr THEN 1 ELSE 0
        /\ pc = "getOrderingAfterSIPS" => Len(newOrder) <= Len(atoms)
        /\ pc \in {"transform", "done"} => Len(newOrder) = Len(atoms)

\* an ordering of three atoms that is not the identity has been returned
C18_Witness ==
    /\ concreteArityAtLeastOne(before.clauses[1])
    /\ sips = "max-ratio"
    /\ pc = "transform"
    /\ clauseIdx = 1
    /\ Len(atoms) = 3
    /\ {newOrder[k] : k \in 1..Len(newOrder)} = {0, 1, 2}
    /\ newOrder # <<0, 1, 2>>

\* ---- C19 ----

isIdentity(ordering) == \A k \in 1..Len(ordering) : ordering[k] = k - 1

\* the clause is a fact, carries an execution plan, or is given the identity
\* ordering by the policy
leftAlone(sipsChosen, clause) ==
    \/ clause.body = <<>>
    \/ hasExecutionPlan(clause)
    \/ isIdentity(getOrderingAfterSIPS(sipsChosen, clause).newOrder)

producedClause(k) == clauses[Len(clauses) - Len(replacedClauses) + k]

\* new has the head of old and the same body literals with the same
\* multiplicities; where old has an atom new has an atom, and every other
\* literal of old is at the same position in new
sameUpToAtomOrder(old, new) ==
    /\ new.head = old.head
    /\ Len(new.body) = Len(old.body)
    /\ \A lit \in Range(old.body) \cup Range(new.body) :
          Count(new.body, lit) = Count(old.body, lit)
    /\ \A n \in 1..Len(old.body) :
          IF old.body[n].kind = "atom" THEN new.body[n].kind = "atom"
          ELSE new.body[n] = old.body[n]

\* C20: under every policy each clause the transformer produces has the
\* head and the multiset of body literals of the clause it replaces; atoms
\* change places among the atom positions only and every negation and
\* constraint stays at its body position.
C20_ProducedClauseIsAtomPermutation ==
    pc # "undefined" =>
        \A k \in 1..Len(replacedClauses) :
            /\ producedClause(k) # replacedClauses[k]
            /\ sameUpToAtomOrder(replacedClauses[k], producedClause(k))

\* a clause with a constraint between two atoms was replaced: the atoms
\* have changed places around the constraint
C20_Witness ==
    /\ pc = "done"
    /\ Len(replacedClauses) = 1
    /\ Len(replacedClauses[1].body) = 3
    /\ replacedClauses[1].body[2].kind = "bc"
    /\ producedClause(1).body[1] = replacedClauses[1].body[3]
    /\ producedClause(1).body[2] = replacedClauses[1].body[2]
    /\ producedClause(1).body[3] = replacedClauses[1].body[1]
    /\ producedClause(1).body[1] # producedClause(1).body[3]

\* ---- C21 ----

\* the identifier of a head argument that is a variable or a constant
plainIdentifier(arg) ==
    CASE arg.kind = "var" -> arg.name
      [] arg.kind = "num" -> "@min:cst:num:" \o arg.name
      [] arg.kind = "str" -> "@min:cst:str" \o "\"" \o arg.name \o "\""
      [] OTHER -> "@min:cst:nil"

\* params are the identifiers of args; an aggregator is identified by a
\* scope variable of the clause
identifiersOf(params, args, n) ==
    /\ Len(params) = Len(args)
    /\ \A k \in 1..Len(args) :
          IF args[k].kind \in {"var", "num", "str", "nil"}
          THEN params[k] = plainIdentifier(args[k])
          ELSE params[k] \in n.variables

\* element 0 of n is the head element of clause c
headIsElementZero(c, n) ==
    /\ n.clauseElements[1].name = "@min:head"
    /\ identifiersOf(n.clauseElements[1].concreteParams, c.head.conc, n)
    /\ identifiersOf(n.clauseElements[1].latticeParams, c.head.lat, n)

\* C21: for every clause the analysis has normalised, element 0 of the
\* NormalisedClause is the head element: it is named @min:head and its
\* concrete and lattice parameters are the normalised head arguments, so
\* the parameter counts of element 0 are the head arities.
C21_HeadIsElementZero ==
    \A i \in 1..Len(normalisations.norms) :
        headIsElementZero(clauses[i], normalisations.norms[i])

\* ---- C22 ----

sameNormalForm(a, b) ==
    /\ a.clauseElements = b.clauseElements
    /\ a.variables = b.variables
    /\ a.constants = b.constants

\* C22: normalisation depends on the clause alone.  Whatever was normalised
\* before (other clauses of the program, an earlier run of the analysis),
\* the element sequence, the variable set and the constant set of a clause
\* are those of a normalisation that numbers the unnamed variables of the
\* clause from 0, and two equal clauses have the same normal form.
C22_NormalisationDeterministic ==
    \A i \in 1..Len(normalisations.norms) :
        /\ sameNormalForm(normalisations.norms[i], NormalisedClause(clauses[i], 0))
        /\ \A j \in 1..Len(normalisations.norms) :
              clauses[i] = clauses[j] =>
                  sameNormalForm(normalisations.norms[i], normalisations.norms[j])

\* ---- C23 ----

\* the body atoms of clause c in the order of a plan order (positions from 1)
atomsInPlanOrder(c, order) == [k \in 1..Len(order) |-> getBodyAtoms(c)[order[k]]]

\* C23: a clause whose execution plan has an order for the version being
\* translated has its body atoms translated in exactly that order; a clause
\* with a plan that has no order for the version is translated in the order
\* of its body.  The SIPS reorder touches clauses without plan only.
C23_PlanOrderIsTranslated ==
    pc = "done" /\ hasExecutionPlan(clauses[1]) =>
        translated = IF version \in DOMAIN planOrders
                     THEN atomsInPlanOrder(clauses[1], planOrders[version])
                     ELSE getBodyAtoms(clauses[1])

\* ---- C24 ----

\* the directives a call submits, in the order it submits them
submittedDirectives(call) ==
    IF call.op = "addDirective" THEN <<AstDirective(call.type, call.name, call.loc)>>
    ELSE IF call.op = "addIoFromDeprecatedTag"
    THEN SelectSeq(<<AstDirective("input", call.name, call.loc),
                     AstDirective("output", call.name, call.loc),
                     AstDirective("printsize", call.name, call.loc)>>,
                   LAMBDA d : d.type \in call.qualifiers)
    ELSE <<>>

\* the earlier directives of the type and relation of directive d
earlierDirectives(d) ==
    {k \in 1..Len(directives) :
        directives[k].type = d.type /\ directives[k].name = d.name}

isDuplicate(d) == d.type \in {"printsize", "limitsize"} /\ earlierDirectives(d) # {}

atMostOneSizeDirective ==
    \A type \in {"printsize", "limitsize"}, name \in ParserNames :
        Cardinality({k \in 1..Len(directives) :
            directives[k].type = type /\ directives[k].name = name}) <= 1

\* what a call does to the directive list and the error report: the
\* submitted directives that are no duplicates are appended in order, and
\* each duplicate adds one error citing its own and an earlier location
directivesHandled ==
    LET sub == submittedDirectives(lastCall')
        rejected == SelectSeq(sub, isDuplicate)
        accepted == SelectSeq(sub, LAMBDA d : ~isDuplicate(d))
    IN lastCall'.op \in {"addDirective", "addIoFromDeprecatedTag"} =>
        /\ directives' = directives \o accepted
        /\ Len(diagnostics') = Len(diagnostics) + Len(rejected)
        /\ SubSeq(diagnostics', 1, Len(diagnostics)) = diagnostics
        /\ \A k \in 1..Len(rejected) :
              LET err == diagnostics'[Len(diagnostics) + k]
              IN /\ err.type = "ERROR"
                 /\ err.primary.loc = rejected[k].loc
                 /\ err.primary.name = rejected[k].name
                 /\ Len(err.additional) = 1
                 /\ \E e \in earlierDirectives(rejected[k]) :
                       err.additional[1].loc = directives[e].loc

\* C24: after any sequence of addDirective and addIoFromDeprecatedTag calls
\* the program holds at most one printsize and at most one limitsize
\* directive per relation name; a rejected duplicate leaves the directive
\* list as it was and adds exactly one error diagnostic that cites the
\* earlier directive's location too; input and output directives are always
\* added.
C24_SizeDirectivesUnique ==
    [](atMostOneSizeDirective) /\ [][directivesHandled]_vars

\* a printsize directive from a deprecated tag was rejected as a duplicate
\* of an earlier printsize directive, the tag's input directive was added
C24_Witness ==
    /\ lastCall # <<>>
    /\ lastCall.op = "addIoFromDeprecatedTag"
    /\ lastCall.qualifiers = {"input", "printsize"}
    /\ Len(diagnostics) = 1
    /\ diagnostics[1].primary.loc = lastCall.loc
    /\ diagnostics[1].additional[1].loc < lastCall.loc
    /\ \E k \in 1..Len(directives) :
          directives[k] = AstDirective("input", lastCall.name, lastCall.loc)
    /\ \E k \in 1..Len(directives) :
          directives[k].type = "printsize" /\ directives[k].name = lastCall.name

\* ---- C25 ----

\* the earlier declarations of the kind and name of a call
earlierDeclarations(call) ==
    {k \in 1..Len(declarations) :
        declarations[k].kind = call.kind /\ declarations[k].name = call.name}

declaredNamesUnique ==
    \A kind \in DeclarationKinds, name \in ParserNames :
        Cardinality({k \in 1..Len(declarations) :
            declarations[k].kind = kind /\ declarations[k].name = name}) <= 1

\* what an add call of a declaration does: a name declared already leaves
\* the declarations as they were and adds one error with the new and the
\* previous location; any other name is added, whatever was reported before
declarationHandled ==
    lastCall'.op \in {"addRelation", "addType", "addLattice", "addFunctorDeclaration"} =>
        IF earlierDeclarations(lastCall') # {}
        THEN /\ declarations' = declarations
             /\ Len(diagnostics') = Len(diagnostics) + 1
             /\ SubSeq(diagnostics', 1, Len(diagnostics)) = diagnostics
             /\ LET err == diagnostics'[Len(diagnostics')]
                IN /\ err.type = "ERROR"
                   /\ err.primary.loc = lastCall'.loc
                   /\ err.primary.name = lastCall'.name
                   /\ Len(err.additional) = 1
                   /\ \E e \in earlierDeclarations(lastCall') :
                         err.additional[1].loc = declarations[e].loc
        ELSE /\ declarations' =
                   Append(declarations,
                          Declaration(lastCall'.kind, lastCall'.name, lastCall'.loc))
             /\ diagnostics' = diagnostics

\* C25: adding a relation, type, lattice or functor declaration whose name
\* is declared already leaves the program unchanged, the first definition
\* kept, and records exactly one error diagnostic with the new and the
\* previous location; later declarations are still added; the declared
\* names of each kind stay unique after any sequence of add calls.
C25_RedefinitionRejected ==
    [](declaredNamesUnique) /\ [][declarationHandled]_vars

\* a relation was added after the redefinition of another relation had
\* been reported
C25_Witness ==
    /\ lastCall # <<>>
    /\ lastCall.op = "addRelation"
    /\ Len(diagnostics) = 1
    /\ diagnostics[1].primary.loc = 2
    /\ diagnostics[1].additional[1].loc = 1
    /\ Len(declarations) = 2
    /\ declarations[1].loc = 1
    /\ declarations[2] = Declaration("relation", lastCall.name, 3)
    /\ declarations[1].kind = "relation"

\* ---- C26 ----

\* the complete candidates of the matrix: sequences of the columns 0..n-1,
\* each column once, row i on a column whose entry in row i is 1
candidatePermutations ==
    LET n == Len(candidateMatrix)
    IN {p \in [1..n -> 0..(n - 1)] :
          /\ \A i, j \in 1..n : p[i] = p[j] => i = j
          /\ \A i \in 1..n : candidateMatrix[i][p[i] + 1] = 1}

\* C26: existsValidPermutation returns true if and only if some permutation
\* pi of [0..n) with M[i][pi(i)] = 1 for every i passes isValidPermutation;
\* before it returns false the search has submitted every such complete
\* permutation to the consistency check, and it never submits a sequence
\* that repeats a column or uses a column with M[i][j] = 0.
C26_SearchSoundAndComplete ==
    /\ submitted \subseteq candidatePermutations
    /\ pc = "returned" =>
          /\ searchState.result = "true" <=>
                \E p \in candidatePermutations : isValidPermutation(normLeft, normRight, p)
          /\ searchState.result = "false" => candidatePermutations \subseteq submitted

\* the search returned true on a candidate that was not the first it
\* submitted, with candidates of the matrix left untried
C26_Witness ==
    /\ pc = "returned"
    /\ Cardinality(submitted) >= 2
    /\ searchState.result = "true"
    /\ Cardinality(candidatePermutations) > Cardinality(submitted)

\* ---- C28 ----

\* C28: existsValidPermutation terminates for every n-by-n matrix of zeros
\* and ones with n >= 1, matrices with an all-zero row and the matrix of
\* ones included: the loop eventually returns true or runs out of choices
\* at position 0 and returns false.
C28_SearchTerminates == <>(pc = "returned")

\* the search returned on the matrix of ones after it had tried every
\* permutation
C28_Witness ==
    /\ pc = "returned"
    /\ Len(candidateMatrix) = MaxElements
    /\ \A i, j \in 1..Len(candidateMatrix) : candidateMatrix[i][j] = 1
    /\ searchState.result = "false"
    /\ submitted = candidatePermutations

\* ---- C27 ----

\* elements of the same name take the same numbers of parameters
fixedArities ==
    \A e, f \in Range(normLeft.clauseElements) \cup Range(normRight.clauseElements) :
        e.name = f.name =>
            /\ Len(e.concreteParams) = Len(f.concreteParams)
            /\ Len(e.latticeParams) = Len(f.latticeParams)

\* the variable map isValidPermutation built for the accepted permutation
acceptedVariableMap ==
    scanPermutation(normLeft, normRight,
                    searchPermutation(normLeft, normRight,
                        permutationMatrixOf(normLeft, normRight)).currentPermutation).map

\* m maps the set from one-to-one onto the set to
isBijection(m, from, to) ==
    /\ from \subseteq DOMAIN m
    /\ \A v \in from : m[v] \in to
    /\ \A v, w \in from : m[v] = m[w] => v = w
    /\ \A u \in to : \E v \in from : m[v] = u

\* C27: when areBijectivelyEquivalent returns true for clauses that use each
\* relation name with one concrete and one lattice arity, the variable map
\* isValidPermutation built for the accepted permutation is a bijection from
\* the variables of the left clause onto the variables of the right clause:
\* no variable is mapped to a constant and no two variables to the same
\* identifier.
C27_VariableMapIsBijection ==
    Tested /\ equivalent /\ fixedArities =>
        \A m \in {acceptedVariableMap} :
            /\ isBijection(m, normLeft.variables, normRight.variables)
            /\ \A v \in normLeft.variables : m[v] \notin normRight.constants

\* two clauses with constants and with variables renamed were found
\* equivalent under a permutation that moves elements
C27_Witness ==
    /\ Tested /\ equivalent /\ fixedArities
    /\ Cardinality(normLeft.variables) >= 2
    /\ normLeft.constants # {}
    /\ \E m \in {acceptedVariableMap} : \E v \in normLeft.variables : m[v] # v
    /\ \E p \in {acceptedPermutation} : \E i \in 1..Len(p) : p[i] # i

\* ---- C29 ----

\* C29: without profile-use the SIPS reordering is idempotent for every
\* policy: on a clause whose atoms were permuted by the ordering the policy
\* computed for it, the policy computes the identity, so a second run of
\* the transformer chooses the atoms of every clause in body order, leaves
\* the program as it is and returns changed = false.
C29_ReorderIdempotent ==
    runs >= 1 =>
        /\ pc # "undefined"
        /\ isIdentity(newOrder)
        /\ pc = "done" => ~changed /\ clauses = before.clauses

\* the second run returned on a program in which the first run had
\* reordered a clause of MaxLiterals atoms
C29_Witness ==
    /\ runs = 1 /\ pc = "done"
    /\ lastChanged /\ ~changed
    /\ sips = "max-bound"
    /\ \E c \in Range(clauses) :
          Len(getBodyAtoms(c)) = MaxLiterals /\ ~hasExecutionPlan(c)

\* ---- C30 ----

\* the number of clauses plus the number of body literals of a clause list
RECURSIVE programSize(_)
programSize(cls) ==
    IF cls = <<>> THEN 0 ELSE 1 + Len(Head(cls).body) + programSize(Tail(cls))

\* C30: whenever transform returns changed = true the number of clauses plus
\* the total number of body literals of the program has strictly decreased,
\* and whenever it returns false the program is the one it was given; so
\* applying transform until it returns false terminates.
C30_ChangedMeansSmaller ==
    pc = "done" =>
        IF changed THEN programSize(clauses) < programSize(given.clauses)
        ELSE Program = given

\* a run that deleted a clause and dropped a body literal of another
\* returned true
C30_Witness ==
    /\ pc = "done" /\ changed
    /\ Len(clauses) + 1 = Len(given.clauses)
    /\ \E n \in 1..Len(clauses) : \E m \in 1..Len(given.clauses) :
          /\ clauses[n].head = given.clauses[m].head
          /\ Len(clauses[n].body) < Len(given.clauses[m].body)
          /\ Range(clauses[n].body) = Range(given.clauses[m].body)

=============================================================================
